---- MODULE Spec2Model ----
(***************************************************************************)
(* Multi-DEM viewer: the ASCII-grid parser (parseASCIIGrid), the tile      *)
(* splitter (processAndChunkDEM) and the coordinate mapping used on the    *)
(* tiles (gridToWorld).                                                    *)
(*                                                                         *)
(* A JavaScript array is a function on 0..len-1, so every index of the     *)
(* model is the index of the source.                                       *)
(***************************************************************************)
EXTENDS Integers, Sequences, FiniteSets, TLC

VARIABLES
    MAX_POINTS_PER_CHUNK,    \* constants.js: the point budget of one chunk
    firstDemAbsoluteOrigin,  \* appState.js: state.firstDemAbsoluteOrigin
    fullParsedData,          \* processAndChunkDEM: its first argument
    numChunksX,              \* processAndChunkDEM: chunks along the columns
    numChunksY,              \* processAndChunkDEM: chunks along the rows
    cy,                      \* processAndChunkDEM: chunk row index of the for loop
    cx,                      \* processAndChunkDEM: chunk column index of the for loop
    resultsArray,            \* processAndChunkDEM: chunks built so far
    chunkExtents,            \* history: [startRow, endRow, startCol, endCol] of resultsArray[i]
    skippedChunks,           \* history: number of chunks skipped as empty
    returned,                \* processAndChunkDEM: the value returned, once pc = "done"
    pc,                      \* processAndChunkDEM: position in the function
    fileContent,             \* parseASCIIGrid: its first argument
    parseResult,             \* parseASCIIGrid: the value returned
    parseError,              \* parseASCIIGrid: the error logged by its catch clause
    parseThrown,             \* parseASCIIGrid: an exception left the function
    parsePc,                 \* parseASCIIGrid: "call" before, "done" after
    fileShape,               \* history: how fileContent was put together
    MAX_PATH_STEPS,          \* waterFlowSimulator.js: the step budget of one path
    demEntry,                \* calculateRaindropPath: its second argument
    initialClickSceneWorldPoint, \* calculateRaindropPath: its first argument
    currentGridPos,          \* calculateRaindropPath: the cell the drop is in
    currentElevation,        \* calculateRaindropPath: the elevation of that cell
    pathPoints,              \* calculateRaindropPath: the points pushed so far
    step,                    \* calculateRaindropPath: the counter of its for loop
    flowResult,              \* calculateRaindropPath: the value returned, once flowPc = "done"
    flowPc,                  \* calculateRaindropPath: position in the function
    pathCells,               \* history: the cells of pathPoints, and the elevation left at each
    loadedDEMs,              \* appState.js: state.loadedDEMs
    pendingLoads,            \* main.js: the handleFileLoad calls waiting at their await
    sessionLog,              \* history: what the last step of the session did to the origin
    meshParsedData,          \* createAndAddTerrainMesh: its second argument
    geometry,                \* createAndAddTerrainMesh: the plane geometry and its position buffer
    meshPc,                  \* createAndAddTerrainMesh: "call" before, "done" after
    heap,                    \* history: the objects of processAndChunkDEM (the header and the
                             \*   rows of its argument and of its chunks), each under its reference
    chunkRefs                \* history: the references of the header and the rows of resultsArray[i]

vars == <<MAX_POINTS_PER_CHUNK, firstDemAbsoluteOrigin, fullParsedData,
          numChunksX, numChunksY, cy, cx, resultsArray, chunkExtents,
          skippedChunks, returned, pc,
          fileContent, parseResult, parseError, parseThrown, parsePc, fileShape,
          MAX_PATH_STEPS, demEntry, initialClickSceneWorldPoint, currentGridPos,
          currentElevation, pathPoints, step, flowResult, flowPc, pathCells,
          loadedDEMs, pendingLoads, sessionLog,
          meshParsedData, geometry, meshPc, heap, chunkRefs>>

splitVars == <<MAX_POINTS_PER_CHUNK, firstDemAbsoluteOrigin, fullParsedData,
               numChunksX, numChunksY, cy, cx, resultsArray, chunkExtents,
               skippedChunks, returned, pc, heap, chunkRefs>>

parseVars == <<fileContent, parseResult, parseError, parseThrown, parsePc, fileShape>>

flowVars == <<MAX_PATH_STEPS, demEntry, initialClickSceneWorldPoint, currentGridPos,
              currentElevation, pathPoints, step, flowResult, flowPc, pathCells>>

sessionVars == <<loadedDEMs, pendingLoads, sessionLog>>

meshVars == <<meshParsedData, geometry, meshPc>>

----------------------------------------------------------------------------
(* Bounds of the model *)

\* largest ncols and nrows of a grid handed to the splitter
MaxDim == 4

\* largest point budget tried (the budgets are 0..MaxPoints)
MaxPoints == 6

\* largest number of data lines of a file handed to the parser
MaxDataLines == 2

\* largest number of lines of a file without header handed to the parser
MaxJunkLines == 12

\* largest ncols and nrows of a tile handed to calculateRaindropPath
MaxFlowDim == 3

\* largest small step budget tried (the budgets are 1..MaxStepBudget and the
\* budget of the source)
MaxStepBudget == 2

\* largest number of tiles held in state.loadedDEMs
MaxLoaded == 3

\* largest number of handleFileLoad calls waiting at their await
MaxPendingLoads == 2

\* largest number of files of one handleFileLoad call
MaxFilesPerLoad == 2

\* largest whole ncols and nrows of a tile handed to createAndAddTerrainMesh
MaxMeshDim == 3

\* numChunksX and numChunksY never pass this value in the source (see
\* CannotSplit); the partition loop of the model stops at it
CounterCap == MaxDim + 2

----------------------------------------------------------------------------
(* JavaScript values *)

\* the JavaScript value null, where an object is expected
null == [type |-> "null"]

\* the JavaScript value null, where a number is expected
nullNum == -700000

\* NaN, Infinity and -Infinity; every finite number of the model lies
\* strictly between NegInfinity and PosInfinity
NaN == -900000

PosInfinity == 800000

NegInfinity == -800000

isNaN(v) == v = NaN

\* arrays
EmptyArray == [i \in {} |-> 0]

ArrLen(a) == Cardinality(DOMAIN a)

ArrPush(a, v) == [i \in 0..ArrLen(a) |-> IF i < ArrLen(a) THEN a[i] ELSE v]

ArrFill(n, v) == [i \in 0..(n - 1) |-> v]

\* Array.prototype.slice(s, e) for 0 <= s
ArrSlice(a, s, e) ==
    LET hi == IF e < ArrLen(a) THEN e ELSE ArrLen(a)
        n  == IF hi > s THEN hi - s ELSE 0
    IN  [i \in 0..(n - 1) |-> a[s + i]]

\* Math.floor(a / b) and Math.ceil(a / b) for integers a and b > 0
FloorDiv(a, b) == a \div b

CeilDiv(a, b) == -((-a) \div b)

----------------------------------------------------------------------------
(* min/max of a row, NODATA and NaN excluded (the for..of loop over a row) *)

\* acc = [min, max, valid]; one row folded into it, left to right
RECURSIVE FoldRow(_, _, _, _)
FoldRow(row, k, nodata_value, acc) ==
    IF k >= ArrLen(row) THEN acc
    ELSE LET val == row[k]
             nxt == IF val # nodata_value /\ ~isNaN(val)
                    THEN [min   |-> IF val < acc.min THEN val ELSE acc.min,
                          max   |-> IF val > acc.max THEN val ELSE acc.max,
                          valid |-> acc.valid + 1]
                    ELSE acc
         IN  FoldRow(row, k + 1, nodata_value, nxt)

FoldStart == [min |-> PosInfinity, max |-> NegInfinity, valid |-> 0]

\* the defaulting of min/max after the rows were read
FinishMinMax(acc, nodata_value) ==
    LET a1 == IF acc.valid = 0 THEN [acc EXCEPT !.min = 0, !.max = 0] ELSE acc
        mn == IF a1.min = PosInfinity
              THEN (IF nodata_value # NegInfinity THEN nodata_value ELSE 0)
              ELSE a1.min
        mx == IF a1.max = NegInfinity
              THEN (IF nodata_value # PosInfinity THEN nodata_value ELSE 0)
              ELSE a1.max
    IN  [minElev |-> mn, maxElev |-> mx]

----------------------------------------------------------------------------
(* processAndChunkDEM *)

originalFileName == "dem.asc"

\* `${originalFileName}_part${cy}_${cx}`
ChunkName(name, y, x) == <<name, "_part", y, "_", x>>

\* the chunk (y, x) of a numY x numX partition: extent, header, rows, min/max
ChunkRows(original, startRowOrig, chunkNRows, startColOrig, endColOrig, chunkHeader) ==
    LET RECURSIVE Rows(_, _, _)
        Rows(r, out, acc) ==
            IF r >= chunkNRows THEN [data |-> out, acc |-> acc]
            ELSE LET originalRowIndex == startRowOrig + r
                 IN  IF originalRowIndex < 0 \/ originalRowIndex >= original.header.nrows
                     THEN Rows(r + 1, out, acc)
                     ELSE IF originalRowIndex \notin DOMAIN original.data
                     THEN Rows(r + 1,
                               ArrPush(out, ArrFill(endColOrig - startColOrig,
                                                    chunkHeader.nodata_value)),
                               acc)
                     ELSE LET newRow == ArrSlice(original.data[originalRowIndex],
                                                 startColOrig, endColOrig)
                          IN  Rows(r + 1, ArrPush(out, newRow),
                                   FoldRow(newRow, 0, chunkHeader.nodata_value, acc))
    IN  Rows(0, EmptyArray, FoldStart)

StartRowOrig(original, numY, y) == FloorDiv(y * original.header.nrows, numY)

EndRowOrig(original, numY, y) == FloorDiv((y + 1) * original.header.nrows, numY)

StartColOrigCeil(original, numX, x) == CeilDiv(x * original.header.ncols, numX)

StartColOrig(original, numX, x) == FloorDiv(x * original.header.ncols, numX)

EndColOrig(original, numX, x) == FloorDiv((x + 1) * original.header.ncols, numX)

ChunkYllcorner(originalHeader, endRowOrig) ==
    originalHeader.yllcorner + ((originalHeader.nrows - endRowOrig) * originalHeader.cellsize)

\* the corner of the original kept for every chunk
ChunkXllcornerOfOriginal(originalHeader, startColOrig) == originalHeader.xllcorner

ChunkXllcorner(originalHeader, startColOrig) ==
    originalHeader.xllcorner + (startColOrig * originalHeader.cellsize)

ChunkHeader(originalHeader, chunkNCols, chunkNRows, startColOrig, endRowOrig) ==
    [originalHeader EXCEPT
        !.ncols = chunkNCols,
        !.nrows = chunkNRows,
        !.xllcorner = ChunkXllcorner(originalHeader, startColOrig),
        !.yllcorner = ChunkYllcorner(originalHeader, endRowOrig)]

(* References: an object is known by its reference; two names for one     *)
(* reference are one object, and a write through either changes both.      *)

\* the header and the rows of the argument of processAndChunkDEM
ArgumentHeaderRef == [of |-> "argument", cy |-> 0, cx |-> 0, part |-> "header", r |-> 0]

ArgumentRowRef(r) == [of |-> "argument", cy |-> 0, cx |-> 0, part |-> "row", r |-> r]

\* the objects created for the chunk (y, x)
NewHeaderRef(y, x) == [of |-> "chunk", cy |-> y, cx |-> x, part |-> "header", r |-> 0]

NewRowRef(y, x, r) == [of |-> "chunk", cy |-> y, cx |-> x, part |-> "row", r |-> r]

\* const chunkHeader = originalHeader: the header of the argument itself
HeaderAssigned(originalRef, newRef) == originalRef

\* line 87: { ...originalHeader } is a new object
HeaderSpread(originalRef, newRef) == newRef

\* lines 107 and 112: new Array(...).fill(...) and slice(...) give a new array
RowSliced(newRef) == newRef

\* the heap holding the argument alone
ArgumentObjects(parsedData) ==
    IF parsedData = null THEN EmptyArray
    ELSE [ref \in {ArgumentHeaderRef} \cup {ArgumentRowRef(r) : r \in DOMAIN parsedData.data}
             |-> IF ref.part = "header" THEN parsedData.header
                 ELSE parsedData.data[ref.r]]

\* the references under which the chunk (y, x) holds its header and its rows
RefsOfChunk(chunkData, y, x) ==
    [header |-> HeaderSpread(ArgumentHeaderRef, NewHeaderRef(y, x)),
     rows   |-> [r \in DOMAIN chunkData.data |-> RowSliced(NewRowRef(y, x, r))]]

\* lines 87-114: the header and the rows of the chunk (y, x) are written
\* under their references
WithChunkObjects(objects, chunkData, y, x) ==
    LET refs == RefsOfChunk(chunkData, y, x)
        rowRefs == {refs.rows[r] : r \in DOMAIN chunkData.data}
    IN  [ref \in DOMAIN objects \cup {refs.header} \cup rowRefs |->
            IF ref = refs.header THEN chunkData.header
            ELSE IF ref \in rowRefs
                 THEN chunkData.data[CHOOSE r \in DOMAIN chunkData.data : refs.rows[r] = ref]
                 ELSE objects[ref]]

BuildChunk(original, numX, numY, y, x) ==
    LET startRowOrig == StartRowOrig(original, numY, y)
        endRowOrig   == EndRowOrig(original, numY, y)
        chunkNRows   == endRowOrig - startRowOrig
        startColOrig == StartColOrig(original, numX, x)
        endColOrig   == EndColOrig(original, numX, x)
        chunkNCols   == endColOrig - startColOrig
        chunkHeader  == ChunkHeader(original.header, chunkNCols, chunkNRows,
                                    startColOrig, endRowOrig)
        rows         == ChunkRows(original, startRowOrig, chunkNRows,
                                  startColOrig, endColOrig, chunkHeader)
        mm           == FinishMinMax(rows.acc, chunkHeader.nodata_value)
    IN  [empty  |-> chunkNCols <= 0 \/ chunkNRows <= 0,
         extent |-> [startRow |-> startRowOrig, endRow |-> endRowOrig,
                     startCol |-> startColOrig, endCol |-> endColOrig],
         chunk  |-> [name |-> ChunkName(originalFileName, y, x),
                     parsedData |-> [header  |-> chunkHeader,
                                     data    |-> rows.data,
                                     minElev |-> mm.minElev,
                                     maxElev |-> mm.maxElev]]]

\* return [{ name: originalFileName, parsedData: fullParsedData }]
Unsplit == ArrPush(EmptyArray, [name |-> <<originalFileName>>,
                                parsedData |-> fullParsedData])

\* the size test of line 28
WithinLimitStrict(totalPoints, maxPoints) == totalPoints < maxPoints

WithinLimit(totalPoints, maxPoints) == totalPoints <= maxPoints

TotalPoints(parsedData) == parsedData.header.ncols * parsedData.header.nrows

\* lines 19-22: invalid input, the empty list is returned
ReturnInvalid ==
    /\ pc = "call"
    /\ fullParsedData = null
    /\ returned' = EmptyArray
    /\ pc' = "done"
    /\ UNCHANGED <<MAX_POINTS_PER_CHUNK, firstDemAbsoluteOrigin, fullParsedData,
                   numChunksX, numChunksY, cy, cx, resultsArray, chunkExtents,
                   skippedChunks>>
    /\ UNCHANGED <<heap, chunkRefs>>
    /\ UNCHANGED <<parseVars, flowVars, sessionVars, meshVars>>

\* lines 24-31: the grid is within the budget
PassThrough ==
    /\ pc = "call"
    /\ fullParsedData # null
    /\ WithinLimit(TotalPoints(fullParsedData), MAX_POINTS_PER_CHUNK)
    /\ returned' = Unsplit
    /\ pc' = "done"
    /\ UNCHANGED <<MAX_POINTS_PER_CHUNK, firstDemAbsoluteOrigin, fullParsedData,
                   numChunksX, numChunksY, cy, cx, resultsArray, chunkExtents,
                   skippedChunks>>
    /\ UNCHANGED <<heap, chunkRefs>>
    /\ UNCHANGED <<parseVars, flowVars, sessionVars, meshVars>>

\* lines 33-38: the grid is too large, the partition loop is entered
BeginSplit ==
    /\ pc = "call"
    /\ fullParsedData # null
    /\ ~WithinLimit(TotalPoints(fullParsedData), MAX_POINTS_PER_CHUNK)
    /\ resultsArray' = EmptyArray
    /\ chunkExtents' = EmptyArray
    /\ numChunksX' = 1
    /\ numChunksY' = 1
    /\ pc' = "while"
    /\ UNCHANGED <<MAX_POINTS_PER_CHUNK, firstDemAbsoluteOrigin, fullParsedData,
                   cy, cx, skippedChunks, returned>>
    /\ chunkRefs' = EmptyArray
    /\ UNCHANGED heap
    /\ UNCHANGED <<parseVars, flowVars, sessionVars, meshVars>>

ChunkFitsFloor(originalHeader, numX, numY, maxPoints) ==
    LET currentChunkCols == FloorDiv(originalHeader.ncols, numX)
        currentChunkRows == FloorDiv(originalHeader.nrows, numY)
    IN  currentChunkCols * currentChunkRows <= maxPoints

\* the test that ends the partition loop (lines 43-45)
ChunkFits(originalHeader, numX, numY, maxPoints) ==
    LET currentChunkCols == CeilDiv(originalHeader.ncols, numX)
        currentChunkRows == CeilDiv(originalHeader.nrows, numY)
    IN  currentChunkCols * currentChunkRows <= maxPoints

GrowYSameCount(originalHeader, numX, numY) ==
    numX * originalHeader.nrows > numX * originalHeader.ncols

\* the dimension to grow (line 50): TRUE for Y, FALSE for X
GrowY(originalHeader, numX, numY) ==
    numX * originalHeader.nrows > numY * originalHeader.ncols

\* the safety break (line 57)
CannotSplit(originalHeader, numX, numY) ==
    numX > originalHeader.ncols /\ numY > originalHeader.nrows

\* lines 42-61: one iteration of while (true)
PartitionStep ==
    /\ pc = "while"
    /\ numChunksX < CounterCap
    /\ numChunksY < CounterCap
    /\ LET originalHeader == fullParsedData.header
       IN  IF ChunkFits(originalHeader, numChunksX, numChunksY, MAX_POINTS_PER_CHUNK)
           THEN /\ pc' = "for"
                /\ cy' = 0
                /\ cx' = 0
                /\ UNCHANGED <<numChunksX, numChunksY, returned>>
           ELSE LET nx == IF GrowY(originalHeader, numChunksX, numChunksY)
                          THEN numChunksX ELSE numChunksX + 1
                    ny == IF GrowY(originalHeader, numChunksX, numChunksY)
                          THEN numChunksY + 1 ELSE numChunksY
                IN  /\ numChunksX' = nx
                    /\ numChunksY' = ny
                    /\ IF CannotSplit(originalHeader, nx, ny)
                       THEN returned' = Unsplit /\ pc' = "done"
                       ELSE UNCHANGED <<returned, pc>>
                    /\ UNCHANGED <<cy, cx>>
    /\ UNCHANGED <<MAX_POINTS_PER_CHUNK, firstDemAbsoluteOrigin, fullParsedData,
                   resultsArray, chunkExtents, skippedChunks>>
    /\ UNCHANGED <<heap, chunkRefs>>
    /\ UNCHANGED <<parseVars, flowVars, sessionVars, meshVars>>

\* lines 66-154: the body of the two for loops for the chunk (cy, cx)
ChunkStep ==
    /\ pc = "for"
    /\ cy < numChunksY
    /\ LET b == BuildChunk(fullParsedData, numChunksX, numChunksY, cy, cx)
       IN  IF b.empty
           THEN /\ skippedChunks' = skippedChunks + 1
                /\ UNCHANGED <<resultsArray, chunkExtents, heap, chunkRefs>>
           ELSE /\ resultsArray' = ArrPush(resultsArray, b.chunk)
                /\ chunkExtents' = ArrPush(chunkExtents, b.extent)
                /\ heap' = WithChunkObjects(heap, b.chunk.parsedData, cy, cx)
                /\ chunkRefs' = ArrPush(chunkRefs, RefsOfChunk(b.chunk.parsedData, cy, cx))
                /\ UNCHANGED skippedChunks
    /\ IF cx + 1 < numChunksX
       THEN cx' = cx + 1 /\ cy' = cy
       ELSE cx' = 0 /\ cy' = cy + 1
    /\ UNCHANGED <<MAX_POINTS_PER_CHUNK, firstDemAbsoluteOrigin, fullParsedData,
                   numChunksX, numChunksY, returned, pc>>
    /\ UNCHANGED <<parseVars, flowVars, sessionVars, meshVars>>

\* line 155: return resultsArray
ReturnChunks ==
    /\ pc = "for"
    /\ cy >= numChunksY
    /\ returned' = resultsArray
    /\ pc' = "done"
    /\ UNCHANGED <<MAX_POINTS_PER_CHUNK, firstDemAbsoluteOrigin, fullParsedData,
                   numChunksX, numChunksY, cy, cx, resultsArray, chunkExtents,
                   skippedChunks>>
    /\ UNCHANGED <<heap, chunkRefs>>
    /\ UNCHANGED <<parseVars, flowVars, sessionVars, meshVars>>

----------------------------------------------------------------------------
(* Coordinate mapping on a tile (waterFlowSimulator.js) *)

\* x / 2; cellsize is even in every state of the model, so the halves of
\* the source ((col + 0.5) * cellsize, planeWidth / 2) are exact
Half(x) == x \div 2

\* the elevation read without the test for nodata_value and NaN
getElevationAtGridUnchecked(col, row, demData) ==
    IF row < 0 \/ row >= demData.header.nrows \/ col < 0 \/ col >= demData.header.ncols
    THEN nullNum
    ELSE demData.data[row][col]

getElevationAtGrid(col, row, demData) ==
    IF row < 0 \/ row >= demData.header.nrows \/ col < 0 \/ col >= demData.header.ncols
    THEN nullNum
    ELSE IF row \notin DOMAIN demData.data THEN nullNum
    ELSE IF col \notin DOMAIN demData.data[row] THEN nullNum
    ELSE LET elevation == demData.data[row][col]
         IN  IF elevation = nullNum \/ elevation = demData.header.nodata_value
                \/ isNaN(elevation)
             THEN nullNum
             ELSE elevation

\* the test for a missing elevation written as !elevation
gridToWorldFalsyElevation(col, row, demData, origin) ==
    LET elevation == getElevationAtGrid(col, row, demData)
    IN  IF elevation = nullNum \/ elevation = 0 THEN null
        ELSE IF origin.x = nullNum \/ origin.y = nullNum THEN null
        ELSE LET header == demData.header
                 planeWidth == (header.ncols - 1) * header.cellsize
                 planeHeight == (header.nrows - 1) * header.cellsize
             IN  [x |-> header.xllcorner
                          + (Half((2 * col + 1) * header.cellsize) - Half(planeWidth))
                          - origin.x,
                  y |-> header.yllcorner
                          + (Half((2 * row + 1) * header.cellsize) - Half(planeHeight))
                          - origin.y,
                  z |-> elevation]

gridToWorld(col, row, demData, origin) ==
    LET elevation == getElevationAtGrid(col, row, demData)
    IN  IF elevation = nullNum THEN null
        ELSE IF origin.x = nullNum \/ origin.y = nullNum THEN null
        ELSE LET header == demData.header
                 planeWidth == (header.ncols - 1) * header.cellsize
                 planeHeight == (header.nrows - 1) * header.cellsize
                 absGeoCellCenterX == header.xllcorner
                     + (Half((2 * col + 1) * header.cellsize) - Half(planeWidth))
                 absGeoCellCenterY == header.yllcorner
                     + (Half((2 * row + 1) * header.cellsize) - Half(planeHeight))
             IN  [x |-> absGeoCellCenterX - origin.x,
                  y |-> absGeoCellCenterY - origin.y,
                  z |-> elevation]

\* the extent taken to start at the corner itself
chunkGeoExtentBottomLeftAtCorner(corner, planeSize) == corner

\* lines 32-33: demHeader.xllcorner - (planeWidth / 2)
chunkGeoExtentBottomLeft(corner, planeSize) == corner - Half(planeSize)

\* the bounds test with the upper bounds let through
OutsideChunkBoundsInclusive(col, row, demHeader) ==
    col < 0 \/ col > demHeader.ncols \/ row < 0 \/ row > demHeader.nrows

\* lines 48-53: the bounds test
OutsideChunkBounds(col, row, demHeader) ==
    col < 0 \/ col >= demHeader.ncols \/ row < 0 \/ row >= demHeader.nrows

\* lines 18-61; state.firstDemAbsoluteOrigin is the third argument
worldToGrid(sceneWorldPoint, demHeader, origin) ==
    IF demHeader = null THEN null
    ELSE IF demHeader.cellsize <= 0 THEN null
    ELSE IF origin.x = nullNum \/ origin.y = nullNum THEN null
    ELSE LET absGeoClickX == sceneWorldPoint.x + origin.x
             absGeoClickY == sceneWorldPoint.y + origin.y
             planeWidth == (demHeader.ncols - 1) * demHeader.cellsize
             planeHeight == (demHeader.nrows - 1) * demHeader.cellsize
             chunkGeoExtentBottomLeftX ==
                 chunkGeoExtentBottomLeft(demHeader.xllcorner, planeWidth)
             chunkGeoExtentBottomLeftY ==
                 chunkGeoExtentBottomLeft(demHeader.yllcorner, planeHeight)
             xRelativeToChunkBLExtent == absGeoClickX - chunkGeoExtentBottomLeftX
             yRelativeToChunkBLExtent == absGeoClickY - chunkGeoExtentBottomLeftY
             col == FloorDiv(xRelativeToChunkBLExtent, demHeader.cellsize)
             row == FloorDiv(yRelativeToChunkBLExtent, demHeader.cellsize)
         IN  IF OutsideChunkBounds(col, row, demHeader)
             THEN null
             ELSE [col |-> col, row |-> row]

----------------------------------------------------------------------------
(* The grids handed to the splitter *)

\* the cell sizes tried (even, see Half)
CellSizes == {2, 4}

\* the corner of the grids tried
GridXllcorner == 100

GridYllcorner == 200

\* the nodata_value of the grids tried (constants.js DEFAULT_NODATA_VALUE)
DEFAULT_NODATA_VALUE == -99

\* what the cell (0,0) or the last cell of a grid holds instead of an elevation
Holes == {"none", "nodata", "NaN"}

\* a parsed grid: every cell holds its own elevation r*ncols + c + 1, but for
\* a hole; minElev and maxElev as the parser computes them
GridData(ncols, nrows, hole) ==
    [r \in 0..(nrows - 1) |->
        [c \in 0..(ncols - 1) |->
            IF hole = "nodata" /\ r = 0 /\ c = 0 THEN DEFAULT_NODATA_VALUE
            ELSE IF hole = "NaN" /\ r = nrows - 1 /\ c = ncols - 1 THEN NaN
            ELSE r * ncols + c + 1]]

RECURSIVE FoldRows(_, _, _, _)
FoldRows(data, r, nodata_value, acc) ==
    IF r >= ArrLen(data) THEN acc
    ELSE FoldRows(data, r + 1, nodata_value, FoldRow(data[r], 0, nodata_value, acc))

ParsedGrid(ncols, nrows, cellsize, hole) ==
    LET data == GridData(ncols, nrows, hole)
        mm   == FinishMinMax(FoldRows(data, 0, DEFAULT_NODATA_VALUE, FoldStart),
                             DEFAULT_NODATA_VALUE)
    IN  [header  |-> [ncols |-> ncols, nrows |-> nrows,
                      xllcorner |-> GridXllcorner, yllcorner |-> GridYllcorner,
                      cellsize |-> cellsize, nodata_value |-> DEFAULT_NODATA_VALUE],
         data    |-> data,
         minElev |-> mm.minElev,
         maxElev |-> mm.maxElev]

ParsedGrids ==
    {ParsedGrid(nc, nr, cs, hole) :
        nc \in 1..MaxDim, nr \in 1..MaxDim, cs \in CellSizes, hole \in Holes}

\* the origin: unset (first load of a session) or the corner of a tile loaded before
Origins == {[x |-> nullNum, y |-> nullNum],
            [x |-> GridXllcorner - 8, y |-> GridYllcorner - 16]}

ParseIdle ==
    /\ fileContent = <<>>
    /\ parseResult = null
    /\ parseError = "none"
    /\ parseThrown = FALSE
    /\ parsePc = "idle"
    /\ fileShape = [family |-> "none"]

FlowIdle ==
    /\ MAX_PATH_STEPS = 0
    /\ demEntry = null
    /\ initialClickSceneWorldPoint = [x |-> 0, y |-> 0]
    /\ currentGridPos = null
    /\ currentElevation = nullNum
    /\ pathPoints = EmptyArray
    /\ step = 0
    /\ flowResult = EmptyArray
    /\ flowPc = "idle"
    /\ pathCells = EmptyArray

SessionIdle ==
    /\ loadedDEMs = EmptyArray
    /\ pendingLoads = {}
    /\ sessionLog = [op |-> "none", built |-> EmptyArray]

MeshIdle ==
    /\ meshParsedData = null
    /\ geometry = null
    /\ meshPc = "idle"

InitSplit ==
    /\ MAX_POINTS_PER_CHUNK \in 0..MaxPoints
    /\ firstDemAbsoluteOrigin \in Origins
    /\ fullParsedData \in ParsedGrids \cup {null}
    /\ numChunksX = 0
    /\ numChunksY = 0
    /\ cy = 0
    /\ cx = 0
    /\ resultsArray = EmptyArray
    /\ chunkExtents = EmptyArray
    /\ skippedChunks = 0
    /\ returned = EmptyArray
    /\ pc = "call"
    /\ heap = ArgumentObjects(fullParsedData)
    /\ chunkRefs = EmptyArray
    /\ ParseIdle
    /\ FlowIdle
    /\ SessionIdle
    /\ MeshIdle

NextSplit ==
    \/ ReturnInvalid
    \/ PassThrough
    \/ BeginSplit
    \/ PartitionStep
    \/ ChunkStep
    \/ ReturnChunks

SpecSplit == InitSplit /\ [][NextSplit]_vars

\* the function is synchronous: an iteration of its partition loop that can
\* run does run
SpecSplitFair == SpecSplit /\ WF_vars(PartitionStep)

----------------------------------------------------------------------------
(* parseASCIIGrid (demParser.js, held in src/js/uiManager.js)              *)
(*                                                                         *)
(* The file text is a sequence of items: a token (a maximal run of         *)
(* non-blank characters), SP (a run of blanks) or NL (a line break).       *)
(* Tokens next to each other on a line are separated by blanks.            *)
(* A number read from the text is held as twice its value, so that the     *)
(* halves 0.5, 2.5 exist: Fx(v) is the number v.                           *)

SP == " "

NL == "\n"

Fx(v) == 2 * v

\* Math.floor of a number, as an integer
FxFloor(x) == x \div 2

\* parseFloat of a token
parseFloat(tok) ==
    CASE tok = "0"        -> Fx(0)
      [] tok = "0.5"      -> 1
      [] tok = "1"        -> Fx(1)
      [] tok = "2"        -> Fx(2)
      [] tok = "2.5"      -> 5
      [] tok = "3"        -> Fx(3)
      [] tok = "4"        -> Fx(4)
      [] tok = "-1"       -> Fx(-1)
      [] tok = "-99"      -> Fx(-99)
      [] tok = "2x"       -> Fx(2)
      [] tok = "Infinity" -> PosInfinity
      [] OTHER            -> NaN

toLowerCase(tok) ==
    CASE tok = "NCOLS"        -> "ncols"
      [] tok = "NROWS"        -> "nrows"
      [] tok = "NODATA_value" -> "nodata_value"
      [] OTHER                -> tok

headerKeys == {"ncols", "nrows", "xllcorner", "yllcorner", "cellsize", "nodata_value"}

requiredKeys == <<"ncols", "nrows", "cellsize">>

DEFAULT_XLLCORNER == 0

DEFAULT_YLLCORNER == 0

\* fileContent.split(/\r?\n/): the lines, as an array of item sequences
RECURSIVE SplitLines(_, _, _, _)
SplitLines(text, k, current, lines) ==
    IF k > Len(text) THEN ArrPush(lines, current)
    ELSE IF text[k] = NL THEN SplitLines(text, k + 1, <<>>, ArrPush(lines, current))
    ELSE SplitLines(text, k + 1, Append(current, text[k]), lines)

NotSpace(item) == item # SP

\* line.trim() is the empty string
TrimmedEmpty(line) == SelectSeq(line, NotSpace) = <<>>

\* line.trim().split(/\s+/): the tokens; the empty string alone for a blank line
Parts(line) ==
    IF TrimmedEmpty(line) THEN <<"">> ELSE SelectSeq(line, NotSpace)

\* parts.every(p => !isNaN(parseFloat(p)))
AllNumeric(parts) == \A k \in 1..Len(parts) : ~isNaN(parseFloat(parts[k]))

\* header[key] = value
SetKey(header, key, value) ==
    [k \in DOMAIN header \cup {key} |-> IF k = key THEN value ELSE header[k]]

\* the enough-keys test of the data-start heuristic (line 202)
EnoughKeys(header) == Cardinality(DOMAIN header) >= Cardinality(headerKeys) - 1

\* lines 193-216: the header scan from line i on; ends by break, by the end
\* of the lines, or by a throw
RECURSIVE HeaderScan(_, _, _)
HeaderScan(lines, i, header) ==
    IF i >= ArrLen(lines) THEN [type |-> "end", header |-> header, dataStartIndex |-> 0]
    ELSE IF TrimmedEmpty(lines[i]) THEN HeaderScan(lines, i + 1, header)
    ELSE LET parts == Parts(lines[i])
             isHeaderLine == Len(parts) >= 2 /\ toLowerCase(parts[1]) \in headerKeys
             header2 == IF isHeaderLine
                        THEN SetKey(header, toLowerCase(parts[1]), parseFloat(parts[2]))
                        ELSE header
         IN  IF ~isHeaderLine /\ EnoughKeys(header) /\ AllNumeric(parts)
             THEN [type |-> "break", header |-> header, dataStartIndex |-> i]
             ELSE IF i > 10 /\ Cardinality(DOMAIN header2) < 4
             THEN [type |-> "throw", error |-> "Error: too few standard keys"]
             ELSE IF i = ArrLen(lines) - 1
             THEN [type |-> "throw", error |-> "Error: end of file before data"]
             ELSE HeaderScan(lines, i + 1, header2)

\* typeof header[key] !== 'number' || isNaN(header[key])
MissingOrInvalid(header, key) == key \notin DOMAIN header \/ isNaN(header[key])

\* lines 226-238: the defaults of the optional fields
WithDefaults(header) ==
    LET h1 == IF MissingOrInvalid(header, "xllcorner")
              THEN SetKey(header, "xllcorner", Fx(DEFAULT_XLLCORNER)) ELSE header
        h2 == IF MissingOrInvalid(h1, "yllcorner")
              THEN SetKey(h1, "yllcorner", Fx(DEFAULT_YLLCORNER)) ELSE h1
    IN  IF MissingOrInvalid(h2, "nodata_value")
        THEN SetKey(h2, "nodata_value", Fx(DEFAULT_NODATA_VALUE)) ELSE h2

\* lines 263-273: one data line as a row of ncols values
RowOfLine(line, ncols, nodata_value) ==
    LET parts == Parts(line)
    IN  [k \in 0..(ncols - 1) |->
            IF k < Len(parts) THEN parseFloat(parts[k + 1]) ELSE nodata_value]

\* lines 250-283: the nrows data rows from dataStartIndex on, with min/max;
\* new Array(ncols) throws a RangeError for a negative ncols
RECURSIVE ReadRows(_, _, _, _, _, _, _, _)
ReadRows(lines, dataStartIndex, i, nrows, ncols, nodata_value, out, acc) ==
    IF i >= nrows THEN [type |-> "ok", data |-> out, acc |-> acc]
    ELSE IF ncols < 0 THEN [type |-> "throw", error |-> "RangeError: Invalid array length"]
    ELSE LET lineIndex == dataStartIndex + i
         IN  IF lineIndex >= ArrLen(lines) \/ lines[lineIndex] = <<>>
             THEN ReadRows(lines, dataStartIndex, i + 1, nrows, ncols, nodata_value,
                           ArrPush(out, ArrFill(ncols, nodata_value)), acc)
             ELSE LET rowToAdd == RowOfLine(lines[lineIndex], ncols, nodata_value)
                  IN  ReadRows(lines, dataStartIndex, i + 1, nrows, ncols, nodata_value,
                               ArrPush(out, rowToAdd),
                               FoldRow(rowToAdd, 0, nodata_value, acc))

\* lines 184-296: the body of the try block; a record
\* [type |-> "return", value |-> ...] or [type |-> "throw", error |-> ...]
ParseBody(text) ==
    LET lines == SplitLines(text, 1, <<>>, EmptyArray)
        scan  == HeaderScan(lines, 0, EmptyArray)
    IN  IF scan.type = "throw" THEN scan
        ELSE IF \E k \in 1..Len(requiredKeys) : MissingOrInvalid(scan.header, requiredKeys[k])
        THEN [type |-> "throw", error |-> "Error: missing or invalid required header field"]
        ELSE LET header == WithDefaults(scan.header)
                 ncols  == FxFloor(header["ncols"])
                 nrows  == FxFloor(header["nrows"])
                 rows   == ReadRows(lines, scan.dataStartIndex, 0, nrows, ncols,
                                    header["nodata_value"], EmptyArray, FoldStart)
             IN  IF rows.type = "throw" THEN rows
                 ELSE LET mm == FinishMinMax(rows.acc, header["nodata_value"])
                      IN  [type  |-> "return",
                           value |-> [header  |-> header,
                                      data    |-> rows.data,
                                      minElev |-> mm.minElev,
                                      maxElev |-> mm.maxElev]]

\* lines 298-302: what the catch clause catches
CatchesErrorOnly(outcome) == outcome.error # "RangeError: Invalid array length"

Catches(outcome) == TRUE

\* lines 182-303: the whole call
Parse ==
    /\ parsePc = "call"
    /\ LET outcome == ParseBody(fileContent)
       IN  IF outcome.type = "return"
           THEN /\ parseResult' = outcome.value
                /\ parseError' = "none"
                /\ parseThrown' = FALSE
           ELSE IF Catches(outcome)
           THEN /\ parseResult' = null
                /\ parseError' = outcome.error
                /\ parseThrown' = FALSE
           ELSE /\ parseResult' = null
                /\ parseError' = "none"
                /\ parseThrown' = TRUE
    /\ parsePc' = "done"
    /\ UNCHANGED <<fileContent, fileShape>>
    /\ UNCHANGED <<splitVars, flowVars, sessionVars, meshVars>>

----------------------------------------------------------------------------
(* The file texts handed to the parser *)

\* a header key that the file does not give
Absent == "<absent>"

\* tokens for ncols and nrows that make a usable header, and those that do not
GoodNcolsTokens == {"2", "2.5"}

BadNcolsTokens == {Absent, "abc", "0", "0.5", "-1"}

GoodNrowsTokens == {"1", "2.5"}

BadNrowsTokens == {Absent, "abc", "0", "0.5", "-1"}

GoodCellsizeTokens == {"1"}

BadCellsizeTokens == {Absent, "abc"}

\* the choices of <<ncols, nrows, cellsize>>: at most one of them unusable
RequiredChoices ==
    (GoodNcolsTokens \X GoodNrowsTokens \X (GoodCellsizeTokens \cup BadCellsizeTokens))
    \cup (BadNcolsTokens \X GoodNrowsTokens \X GoodCellsizeTokens)
    \cup (GoodNcolsTokens \X BadNrowsTokens \X GoodCellsizeTokens)

optionalKeys == {"xllcorner", "yllcorner", "nodata_value"}

\* the data lines tried: empty, blanks only, too long, too short, holding
\* nodata_value (-1 when the header gives it, -99 by default), a word, Infinity
DataLines == {<<>>, <<SP>>, <<"1", "2", "3">>, <<"3">>, <<"-1", "2">>,
              <<"-99", "abc">>, <<"Infinity">>}

\* the sequences over S of length at most n
SeqsUpTo(S, n) == UNION {[1..m -> S] : m \in 0..n}

\* the header lines of a file, in the usual order
HeaderLines(req, omitted) ==
    (IF req[1] = Absent THEN <<>> ELSE << <<"NCOLS", req[1]>> >>)
    \o (IF req[2] = Absent THEN <<>> ELSE << <<"NROWS", req[2]>> >>)
    \o (IF "xllcorner" \in omitted THEN <<>> ELSE << <<"xllcorner", "3">> >>)
    \o (IF "yllcorner" \in omitted THEN <<>> ELSE << <<SP, "yllcorner", "4">> >>)
    \o (IF req[3] = Absent THEN <<>> ELSE << <<"cellsize", req[3]>> >>)
    \o (IF "nodata_value" \in omitted THEN <<>> ELSE << <<"NODATA_value", "-1">> >>)

\* the lines joined by line breaks
RECURSIVE JoinLines(_)
JoinLines(ls) ==
    IF ls = <<>> THEN <<>>
    ELSE IF Len(ls) = 1 THEN ls[1]
    ELSE ls[1] \o <<NL>> \o JoinLines(Tail(ls))

\* a file with a header and data lines, with or without a final line break
GridFile(req, omitted, dataLines, finalBreak) ==
    JoinLines(HeaderLines(req, omitted) \o dataLines)
        \o (IF finalBreak THEN <<NL>> ELSE <<>>)

\* the lines of the texts without a usable header
JunkLines == {<<"abc">>, <<"1", "2">>, <<"ncols", "2">>}

\* n times the same line
Repeat(line, n) == [k \in 1..n |-> line]

InitParse ==
    /\ \/ \E req \in RequiredChoices, omitted \in SUBSET optionalKeys,
             dataLines \in SeqsUpTo(DataLines, MaxDataLines), finalBreak \in BOOLEAN :
               /\ fileShape = [family |-> "grid", req |-> req, omitted |-> omitted,
                               dataLines |-> dataLines, finalBreak |-> finalBreak]
               /\ fileContent = GridFile(req, omitted, dataLines, finalBreak)
       \/ \E line \in JunkLines, n \in 0..MaxJunkLines :
               /\ fileShape = [family |-> "junk", line |-> line, n |-> n]
               /\ fileContent = JoinLines(Repeat(line, n))
    /\ parseResult = null
    /\ parseError = "none"
    /\ parseThrown = FALSE
    /\ parsePc = "call"
    /\ MAX_POINTS_PER_CHUNK = MaxPoints
    /\ firstDemAbsoluteOrigin = [x |-> nullNum, y |-> nullNum]
    /\ fullParsedData = null
    /\ numChunksX = 0
    /\ numChunksY = 0
    /\ cy = 0
    /\ cx = 0
    /\ resultsArray = EmptyArray
    /\ chunkExtents = EmptyArray
    /\ skippedChunks = 0
    /\ returned = EmptyArray
    /\ pc = "idle"
    /\ heap = EmptyArray
    /\ chunkRefs = EmptyArray
    /\ FlowIdle
    /\ SessionIdle
    /\ MeshIdle

NextParse == Parse

SpecParse == InitParse /\ [][NextParse]_vars

----------------------------------------------------------------------------
(* calculateRaindropPath (waterFlowSimulator.js)                           *)
(*                                                                         *)
(* The lengths of a tile header, of the origin and of a scene point are    *)
(* whole numbers with an even cellsize, so that the half cell of           *)
(* gridToWorld is exact; a tile of cellsize 1 is held in halves (Fx).      *)

\* lines 166-171: the neighbours in the order of the source; dist2 is the
\* square of dist (1, or 2 for Math.SQRT2)
neighbors ==
    << [dc |-> -1, dr |->  0, dist2 |-> 1], [dc |-> 1, dr |->  0, dist2 |-> 1],
       [dc |->  0, dr |-> -1, dist2 |-> 1], [dc |-> 0, dr |->  1, dist2 |-> 1],
       [dc |-> -1, dr |-> -1, dist2 |-> 2], [dc |-> 1, dr |-> -1, dist2 |-> 2],
       [dc |-> -1, dr |->  1, dist2 |-> 2], [dc |-> 1, dr |->  1, dist2 |-> 2] >>

\* line 181: deltaElev / (neighbor.dist * cellsize), held as
\* 2 * (slope * cellsize)^2 = 2 * deltaElev^2 / dist^2; deltaElev >= 0 and
\* cellsize > 0 where it is used, so the order of the slopes is kept
slope(deltaElev, neighbor) == (2 * deltaElev * deltaElev) \div neighbor.dist2

\* a neighbour of another elevation counts as lower
LowerOrHigher(nElev, elevation) == nElev # elevation

\* a neighbour counts as lower only from a drop of more than 1
LowerByMoreThanOne(nElev, elevation) == nElev < elevation - 1

\* line 179: nElev < currentElevation
Lower(nElev, elevation) == nElev < elevation

\* a slope that is as steep replaces the steepest found
SteeperOrEqual(candidate, steepestSlope) == candidate >= steepestSlope

\* line 183: slope > steepestSlope
Steeper(candidate, steepestSlope) == candidate > steepestSlope

\* the scan ends after the orthogonal neighbours
ScanDoneAfterOrthogonal(k) == k > Len(neighbors) \div 2

\* line 173: for (const neighbor of neighbors)
ScanDone(k) == k > Len(neighbors)

\* lines 162-189: the scan of the neighbours from the k-th on
RECURSIVE ScanNeighbors(_, _, _, _, _)
ScanNeighbors(k, gridPos, elevation, demData, best) ==
    IF ScanDone(k) THEN best
    ELSE LET neighbor == neighbors[k]
             ncol == gridPos.col + neighbor.dc
             nrow == gridPos.row + neighbor.dr
             nElev == getElevationAtGrid(ncol, nrow, demData)
             taken == /\ nElev # nullNum
                      /\ Lower(nElev, elevation)
                      /\ Steeper(slope(elevation - nElev, neighbor), best.steepestSlope)
         IN  ScanNeighbors(k + 1, gridPos, elevation, demData,
                 IF taken
                 THEN [steepestSlope |-> slope(elevation - nElev, neighbor),
                       nextGridPos |-> [col |-> ncol, row |-> nrow],
                       nextCellCenterElevation |-> nElev]
                 ELSE best)

\* lines 162-164 and 173-189: one scan from the current cell
Steepest(gridPos, elevation, demData) ==
    ScanNeighbors(1, gridPos, elevation, demData,
                  [steepestSlope |-> 0, nextGridPos |-> null,
                   nextCellCenterElevation |-> elevation])

\* line 122: !demEntry || !demEntry.demData || !demEntry.mesh
InvalidEntry(entry) ==
    IF entry = null THEN TRUE
    ELSE IF entry.demData = null THEN TRUE
    ELSE entry.mesh = null

\* lines 132-150: the start of the path, null when it cannot be established
StartOfPath(point, entry, origin) ==
    LET gridPos == worldToGrid(point, entry.demData.header, origin)
    IN  IF gridPos = null THEN null
        ELSE IF getElevationAtGrid(gridPos.col, gridPos.row, entry.demData) = nullNum
        THEN null
        ELSE IF gridToWorld(gridPos.col, gridPos.row, entry.demData, origin) = null
        THEN null
        ELSE [gridPos |-> gridPos,
              elevation |-> getElevationAtGrid(gridPos.col, gridPos.row, entry.demData),
              point |-> gridToWorld(gridPos.col, gridPos.row, entry.demData, origin)]

\* lines 122-125, 133-136, 140-143, 147-150: return []
RejectStart ==
    /\ flowPc = "call"
    /\ IF InvalidEntry(demEntry) THEN TRUE
       ELSE StartOfPath(initialClickSceneWorldPoint, demEntry,
                        firstDemAbsoluteOrigin) = null
    /\ flowResult' = EmptyArray
    /\ flowPc' = "done"
    /\ UNCHANGED <<MAX_PATH_STEPS, demEntry, initialClickSceneWorldPoint, currentGridPos,
                   currentElevation, pathPoints, step, pathCells>>
    /\ UNCHANGED <<splitVars, parseVars, sessionVars, meshVars>>

\* lines 128-161: the path starts at the centre of the starting cell
BeginPath ==
    /\ flowPc = "call"
    /\ ~InvalidEntry(demEntry)
    /\ LET start == StartOfPath(initialClickSceneWorldPoint, demEntry,
                                firstDemAbsoluteOrigin)
       IN  /\ start # null
           /\ currentGridPos' = start.gridPos
           /\ currentElevation' = start.elevation
           /\ pathPoints' = ArrPush(EmptyArray, start.point)
           /\ pathCells' = ArrPush(EmptyArray,
                  [col |-> start.gridPos.col, row |-> start.gridPos.row,
                   from |-> nullNum])
    /\ step' = 0
    /\ flowPc' = "for"
    /\ UNCHANGED <<MAX_PATH_STEPS, demEntry, initialClickSceneWorldPoint, flowResult>>
    /\ UNCHANGED <<splitVars, parseVars, sessionVars, meshVars>>

\* the loop test of line 161 in its original form
StepAllowedInclusive == step <= MAX_PATH_STEPS

\* line 161: step < MAX_PATH_STEPS
StepAllowed == step < MAX_PATH_STEPS

\* lines 161-211: an iteration that moves the drop to the steepest lower
\* neighbour (or breaks at line 205 when that cell has no scene point)
MoveStep ==
    /\ flowPc = "for"
    /\ StepAllowed
    /\ LET best == Steepest(currentGridPos, currentElevation, demEntry.demData)
           nextSceneWorldPoint ==
               gridToWorld(best.nextGridPos.col, best.nextGridPos.row,
                           demEntry.demData, firstDemAbsoluteOrigin)
       IN  /\ best.nextGridPos # null
           /\ currentGridPos' = best.nextGridPos
           /\ currentElevation' = best.nextCellCenterElevation
           /\ IF nextSceneWorldPoint # null
              THEN /\ pathPoints' = ArrPush(pathPoints, nextSceneWorldPoint)
                   /\ pathCells' = ArrPush(pathCells,
                          [col |-> best.nextGridPos.col, row |-> best.nextGridPos.row,
                           from |-> currentElevation])
                   /\ step' = step + 1
                   /\ UNCHANGED <<flowResult, flowPc>>
              ELSE /\ flowResult' = pathPoints
                   /\ flowPc' = "done"
                   /\ UNCHANGED <<pathPoints, pathCells, step>>
    /\ UNCHANGED <<MAX_PATH_STEPS, demEntry, initialClickSceneWorldPoint>>
    /\ UNCHANGED <<splitVars, parseVars, sessionVars, meshVars>>

\* lines 191-194 and 212-213: no lower neighbour, the drop stops
PoolStop ==
    /\ flowPc = "for"
    /\ StepAllowed
    /\ Steepest(currentGridPos, currentElevation, demEntry.demData).nextGridPos = null
    /\ flowResult' = pathPoints
    /\ flowPc' = "done"
    /\ UNCHANGED <<MAX_PATH_STEPS, demEntry, initialClickSceneWorldPoint, currentGridPos,
                   currentElevation, pathPoints, step, pathCells>>
    /\ UNCHANGED <<splitVars, parseVars, sessionVars, meshVars>>

\* lines 161 and 212-213: the step budget is used up
MaxStepsStop ==
    /\ flowPc = "for"
    /\ ~StepAllowed
    /\ flowResult' = pathPoints
    /\ flowPc' = "done"
    /\ UNCHANGED <<MAX_PATH_STEPS, demEntry, initialClickSceneWorldPoint, currentGridPos,
                   currentElevation, pathPoints, step, pathCells>>
    /\ UNCHANGED <<splitVars, parseVars, sessionVars, meshVars>>

----------------------------------------------------------------------------
(* The tiles and clicks handed to calculateRaindropPath *)

\* line 9 of waterFlowSimulator.js
SourceMaxPathSteps == 2000

StepBudgets == (1..MaxStepBudget) \cup {SourceMaxPathSteps}

Abs(x) == IF x < 0 THEN -x ELSE x

Chebyshev(dc, dr) == IF Abs(dc) > Abs(dr) THEN Abs(dc) ELSE Abs(dr)

\* a tile as createAndAddTerrainMesh keeps it in a demEntry (lines 192-200)
TileEntry(data, ncols, nrows, xllcorner, yllcorner, cellsize, nodata_value) ==
    LET mm == FinishMinMax(FoldRows(data, 0, nodata_value, FoldStart), nodata_value)
    IN  [name    |-> originalFileName,
         mesh    |-> [type |-> "Mesh"],
         demData |-> [header  |-> [ncols |-> ncols, nrows |-> nrows,
                                   xllcorner |-> xllcorner, yllcorner |-> yllcorner,
                                   cellsize |-> cellsize, nodata_value |-> nodata_value],
                      data    |-> data,
                      minElev |-> mm.minElev,
                      maxElev |-> mm.maxElev]]

\* the elevation of a cell of a funnel is its Chebyshev distance to the
\* minimum cell (mc, mr)
FunnelData(ncols, nrows, mc, mr) ==
    [r \in 0..(nrows - 1) |-> [c \in 0..(ncols - 1) |-> Chebyshev(c - mc, r - mr)]]

FlatData(ncols, nrows, elevation) ==
    [r \in 0..(nrows - 1) |-> [c \in 0..(ncols - 1) |-> elevation]]

\* the grid [[5,5,5],[5,0,5],[5,5,5]]
BowlData == [r \in 0..2 |-> [c \in 0..2 |-> IF r = 1 /\ c = 1 THEN 0 ELSE 5]]

BowlNodata == -9999

\* a 3x3 grid around a centre of elevation RingCentre: the i-th and the j-th
\* neighbour of the centre hold ei and ej, the others the elevation of the centre
RingCentre == 5

RingElevations == (1..6) \cup {DEFAULT_NODATA_VALUE, NaN}

RingData(i, ei, j, ej) ==
    [r \in 0..2 |-> [c \in 0..2 |->
        IF c = 1 + neighbors[i].dc /\ r = 1 + neighbors[i].dr THEN ei
        ELSE IF c = 1 + neighbors[j].dc /\ r = 1 + neighbors[j].dr THEN ej
        ELSE RingCentre]]

\* the tiles of the descent cases: corner (0,0), cellsize 1 held as Fx(1)
DescentTiles ==
    {TileEntry(FunnelData(nc, nr, mc, mr), nc, nr, Fx(0), Fx(0), Fx(1),
               DEFAULT_NODATA_VALUE) :
        nc \in 1..MaxFlowDim, nr \in 1..MaxFlowDim,
        mc \in 0..(MaxFlowDim - 1), mr \in 0..(MaxFlowDim - 1)}
    \cup {TileEntry(FlatData(nc, nr, e), nc, nr, Fx(0), Fx(0), Fx(1), DEFAULT_NODATA_VALUE) :
            nc \in 1..MaxFlowDim, nr \in 1..MaxFlowDim, e \in {0, 3}}
    \cup {TileEntry(BowlData, 3, 3, Fx(0), Fx(0), Fx(1), BowlNodata)}

RingTiles ==
    {TileEntry(RingData(i, ei, j, ej), 3, 3, Fx(0), Fx(0), Fx(1), DEFAULT_NODATA_VALUE) :
        i \in 1..Len(neighbors), j \in 1..Len(neighbors),
        ei \in RingElevations, ej \in RingElevations}

\* corner and cellsize of the tiles of the mapping cases; the parser lets a
\* cellsize of 0 or below through (uiManager.js lines 219-224)
MappingHeaders ==
    {[xllcorner |-> 0, yllcorner |-> 0, cellsize |-> 2],
     [xllcorner |-> 10, yllcorner |-> -6, cellsize |-> 4],
     [xllcorner |-> 0, yllcorner |-> 0, cellsize |-> 0],
     [xllcorner |-> 0, yllcorner |-> 0, cellsize |-> -2]}

MappingTiles ==
    {TileEntry(GridData(nc, nr, hole), nc, nr, h.xllcorner, h.yllcorner, h.cellsize,
               DEFAULT_NODATA_VALUE) :
        nc \in 1..MaxFlowDim, nr \in 1..MaxFlowDim, hole \in Holes, h \in MappingHeaders}

\* the origin: unset, the corner of the tile, or the corner of another tile
FlowOrigins == {[x |-> nullNum, y |-> nullNum], [x |-> 0, y |-> 0], [x |-> 4, y |-> -2]}

\* the entries rejected at line 122
InvalidEntries ==
    {null,
     [TileEntry(BowlData, 3, 3, 0, 0, 2, BowlNodata) EXCEPT !.demData = null],
     [TileEntry(BowlData, 3, 3, 0, 0, 2, BowlNodata) EXCEPT !.mesh = null]}

\* the scene points tried on a tile: every half cell from margin cells
\* before the tile to margin cells behind it
ClickPoints(header, origin, margin) ==
    LET cs == IF header.cellsize > 0 THEN header.cellsize ELSE 2
        ox == IF origin.x = nullNum THEN 0 ELSE origin.x
        oy == IF origin.y = nullNum THEN 0 ELSE origin.y
        x0 == header.xllcorner - Half((header.ncols - 1) * cs) - ox
        y0 == header.yllcorner - Half((header.nrows - 1) * cs) - oy
    IN  {[x |-> x0 + i * Half(cs), y |-> y0 + j * Half(cs)] :
            i \in (-2 * margin)..(2 * (header.ncols + margin)),
            j \in (-2 * margin)..(2 * (header.nrows + margin))}

SplitIdle ==
    /\ MAX_POINTS_PER_CHUNK = MaxPoints
    /\ fullParsedData = null
    /\ numChunksX = 0
    /\ numChunksY = 0
    /\ cy = 0
    /\ cx = 0
    /\ resultsArray = EmptyArray
    /\ chunkExtents = EmptyArray
    /\ skippedChunks = 0
    /\ returned = EmptyArray
    /\ pc = "idle"
    /\ heap = EmptyArray
    /\ chunkRefs = EmptyArray

InitFlow ==
    /\ \/ \E entry \in DescentTiles, budget \in StepBudgets :
            /\ demEntry = entry
            /\ MAX_PATH_STEPS = budget
            /\ firstDemAbsoluteOrigin = [x |-> 0, y |-> 0]
            /\ initialClickSceneWorldPoint
                  \in ClickPoints(entry.demData.header, firstDemAbsoluteOrigin, 0)
       \/ \E entry \in RingTiles :
            /\ demEntry = entry
            /\ MAX_PATH_STEPS = SourceMaxPathSteps
            /\ firstDemAbsoluteOrigin = [x |-> 0, y |-> 0]
            /\ initialClickSceneWorldPoint
                  \in {pt \in ClickPoints(entry.demData.header, firstDemAbsoluteOrigin, 0) :
                          pt.x % 2 = 1 /\ pt.y % 2 = 1}
       \/ \E entry \in MappingTiles, origin \in FlowOrigins :
            /\ demEntry = entry
            /\ MAX_PATH_STEPS = SourceMaxPathSteps
            /\ firstDemAbsoluteOrigin = origin
            /\ initialClickSceneWorldPoint \in ClickPoints(entry.demData.header, origin, 1)
       \/ \E entry \in InvalidEntries :
            /\ demEntry = entry
            /\ MAX_PATH_STEPS = SourceMaxPathSteps
            /\ firstDemAbsoluteOrigin = [x |-> 0, y |-> 0]
            /\ initialClickSceneWorldPoint = [x |-> 1, y |-> 1]
    /\ currentGridPos = null
    /\ currentElevation = nullNum
    /\ pathPoints = EmptyArray
    /\ step = 0
    /\ flowResult = EmptyArray
    /\ flowPc = "call"
    /\ pathCells = EmptyArray
    /\ SplitIdle
    /\ ParseIdle
    /\ SessionIdle
    /\ MeshIdle

NextFlow ==
    \/ RejectStart
    \/ BeginPath
    \/ MoveStep
    \/ PoolStop
    \/ MaxStepsStop

SpecFlow == InitFlow /\ [][NextFlow]_vars

----------------------------------------------------------------------------
(* The session: handleFileLoad, createAndAddTerrainMesh (main.js) and      *)
(* clearLoadedDEMs (appState.js)                                           *)
(*                                                                         *)
(* handleFileLoad is async: it runs to its await of file.text() (line 120) *)
(* and goes on from there when the text is there, so calls overlap.        *)
(* A file selected is "asc" or "other" by its name (lines 112-118); its    *)
(* text, known once file.text() has resolved, is [kind |-> "unparsable"]   *)
(* (parseASCIIGrid gives null, lines 122-126) or [kind |-> "dem",          *)
(* tiles |-> the headers of the chunks processAndChunkDEM gives, in their  *)
(* order].                                                                 *)

\* the origin as resetFirstDemAbsoluteOrigin leaves it (appState.js lines 65-69)
OriginUnset == [x |-> nullNum, y |-> nullNum]

\* the origin is taken from every tile
OriginMissingAlways(origin) == TRUE

\* main.js line 172: state.firstDemAbsoluteOrigin.x === null
OriginMissing(origin) == origin.x = nullNum

\* main.js lines 164-214 on a session [origin, loadedDEMs]: the origin is
\* set from the header if it is missing, the mesh is placed and the entry pushed
createAndAddTerrainMesh(session, fileName, header) ==
    LET origin == IF OriginMissing(session.origin)
                  THEN [x |-> header.xllcorner, y |-> header.yllcorner]
                  ELSE session.origin
        relativeX == header.xllcorner - origin.x
        relativeY == header.yllcorner - origin.y
        entry == [name |-> fileName,
                  header |-> header,
                  position |-> [x |-> relativeX, y |-> relativeY, z |-> 0]]
    IN  [origin |-> origin, loadedDEMs |-> ArrPush(session.loadedDEMs, entry)]

\* main.js lines 129-131: the tiles of a file, from the k-th on
RECURSIVE AddChunks(_, _, _)
AddChunks(session, tiles, k) ==
    IF k > Len(tiles) THEN session
    ELSE AddChunks(createAndAddTerrainMesh(session, <<originalFileName, k>>, tiles[k]),
                   tiles, k + 1)

\* main.js lines 112-118: the files left once the files that are not .asc
\* files at the front are skipped
RECURSIVE SkipOthers(_)
SkipOthers(files) ==
    IF files = <<>> THEN <<>>
    ELSE IF files[1] = "other" THEN SkipOthers(Tail(files))
    ELSE files

\* the origin is reset at the start of every load
ResetAtLoadAlways(loaded) == TRUE

\* main.js line 104: state.loadedDEMs.length === 0
ResetAtLoad(loaded) == ArrLen(loaded) = 0

\* the pending loads with load added, if it still has a file to read; built
\* is history: the call has built a tile that loadedDEMs holds
WithPending(pending, id, files, built) ==
    IF files = <<>> THEN pending
    ELSE pending \cup {[id |-> id, files |-> files, built |-> built]}

\* the corners of the tiles tried
TileCorners == {[xllcorner |-> 100, yllcorner |-> 200],
                [xllcorner |-> 104, yllcorner |-> 196]}

\* the files of a selection, by their names
SessionFiles == {"asc", "other"}

\* the texts of the .asc files
SessionTexts ==
    {[kind |-> "unparsable"]}
    \cup {[kind |-> "dem", tiles |-> <<t>>] : t \in TileCorners}
    \cup {[kind |-> "dem", tiles |-> <<tt[1], tt[2]>>] :
            tt \in {pair \in TileCorners \X TileCorners : pair[1] # pair[2]}}

SessionLoads == UNION {[1..n -> SessionFiles] : n \in 1..MaxFilesPerLoad}

\* main.js lines 97-120: handleFileLoad up to its first await
HandleFileLoadStart ==
    /\ Cardinality(pendingLoads) < MaxPendingLoads
    /\ \E files \in SessionLoads :
         \E id \in (1..MaxPendingLoads) \ {l.id : l \in pendingLoads} :
            /\ \A other \in (1..MaxPendingLoads) \ {l.id : l \in pendingLoads} : id <= other
            /\ firstDemAbsoluteOrigin' =
                  IF ResetAtLoad(loadedDEMs) THEN OriginUnset ELSE firstDemAbsoluteOrigin
            /\ pendingLoads' = WithPending(pendingLoads, id, SkipOthers(files), FALSE)
            /\ sessionLog' = [op |-> "load", built |-> EmptyArray]
    /\ UNCHANGED loadedDEMs
    /\ UNCHANGED <<MAX_POINTS_PER_CHUNK, fullParsedData, numChunksX, numChunksY, cy, cx,
                   resultsArray, chunkExtents, skippedChunks, returned, pc,
                   heap, chunkRefs>>
    /\ UNCHANGED <<parseVars, flowVars, meshVars>>

\* main.js lines 120-141: a call goes on after its await: the file is
\* parsed, chunked and its tiles are built, up to the next await or the end
HandleFileLoadResume ==
    /\ \E load \in pendingLoads, file \in SessionTexts :
         LET tiles == IF file.kind = "dem" THEN file.tiles ELSE <<>>
             session == AddChunks([origin |-> firstDemAbsoluteOrigin,
                                   loadedDEMs |-> loadedDEMs], tiles, 1)
         IN  /\ ArrLen(loadedDEMs) + Len(tiles) <= MaxLoaded
             /\ firstDemAbsoluteOrigin' = session.origin
             /\ loadedDEMs' = session.loadedDEMs
             /\ pendingLoads' = WithPending(pendingLoads \ {load}, load.id,
                                            SkipOthers(Tail(load.files)),
                                            load.built \/ tiles # <<>>)
             /\ sessionLog' = [op |-> "tiles",
                               built |-> [k \in 0..(Len(tiles) - 1) |-> tiles[k + 1]]]
    /\ UNCHANGED <<MAX_POINTS_PER_CHUNK, fullParsedData, numChunksX, numChunksY, cy, cx,
                   resultsArray, chunkExtents, skippedChunks, returned, pc,
                   heap, chunkRefs>>
    /\ UNCHANGED <<parseVars, flowVars, meshVars>>

\* appState.js lines 82-87
ClearLoadedDEMs ==
    /\ loadedDEMs' = EmptyArray
    /\ firstDemAbsoluteOrigin' = OriginUnset
    /\ sessionLog' = [op |-> "clear", built |-> EmptyArray]
    /\ pendingLoads' = {[load EXCEPT !.built = FALSE] : load \in pendingLoads}
    /\ UNCHANGED <<MAX_POINTS_PER_CHUNK, fullParsedData, numChunksX, numChunksY, cy, cx,
                   resultsArray, chunkExtents, skippedChunks, returned, pc,
                   heap, chunkRefs>>
    /\ UNCHANGED <<parseVars, flowVars, meshVars>>

\* appState.js lines 31 and 39: no tile, no origin
InitSession ==
    /\ firstDemAbsoluteOrigin = OriginUnset
    /\ loadedDEMs = EmptyArray
    /\ pendingLoads = {}
    /\ sessionLog = [op |-> "none", built |-> EmptyArray]
    /\ SplitIdle
    /\ ParseIdle
    /\ FlowIdle
    /\ MeshIdle

NextSession ==
    \/ HandleFileLoadStart
    \/ HandleFileLoadResume
    \/ ClearLoadedDEMs

SpecSession == InitSession /\ [][NextSession]_vars

----------------------------------------------------------------------------
(* The mesh of a tile: createAndAddTerrainMesh (main.js lines 164-214)     *)
(*                                                                         *)
(* The numbers of a tile are held as the parser gives them, in halves      *)
(* (Fx); undefined, where a row or a cell is missing, is no element of     *)
(* the array.                                                              *)

Max(a, b) == IF a > b THEN a ELSE b

\* main.js line 178: new THREE.PlaneGeometry(w, h, widthSegments, heightSegments)
\* has (widthSegments + 1) x (heightSegments + 1) vertices, laid out row by
\* row, each with z = 0; positions is the array of their z
PlaneGeometry(widthSegments, heightSegments) ==
    [gridX1 |-> widthSegments + 1,
     gridY1 |-> heightSegments + 1,
     positions |-> ArrFill((widthSegments + 1) * (heightSegments + 1), 0)]

\* main.js line 187: positions.array.length > vertexIndex * 3 + 2, three
\* numbers to a vertex
HasVertex(positions, vertexIndex) == 3 * ArrLen(positions) > vertexIndex * 3 + 2

\* main.js line 186: elevation === undefined || elevation === null ||
\* isNaN(elevation) || elevation === nodata_value (undefined was replaced by
\* nodata_value at line 185)
IsVoid(elevation, nodata_value) ==
    elevation = nullNum \/ isNaN(elevation) \/ elevation = nodata_value

\* main.js lines 185-186: the height of the vertex of the cell (demCol, demRow)
VertexElevation(parsedData, demCol, demRow) ==
    LET data == parsedData.data
        nodata_value == parsedData.header.nodata_value
        elevation == IF demRow \in DOMAIN data /\ demCol \in DOMAIN data[demRow]
                     THEN data[demRow][demCol]
                     ELSE nodata_value
    IN  IF IsVoid(elevation, nodata_value) THEN parsedData.minElev ELSE elevation

\* main.js lines 180-189: the two for loops, k = i + j * ncols running over
\* the cells row by row
RECURSIVE SetVertexHeights(_, _, _, _, _)
SetVertexHeights(parsedData, ncols, nrows, k, positions) ==
    IF k >= ncols * nrows THEN positions
    ELSE LET j == k \div ncols
             i == k % ncols
             vertexIndex == i + j * ncols
             elevation == VertexElevation(parsedData, i, j)
         IN  SetVertexHeights(parsedData, ncols, nrows, k + 1,
                 IF HasVertex(positions, vertexIndex)
                 THEN [positions EXCEPT ![vertexIndex] = elevation]
                 ELSE positions)

\* main.js lines 164-214: the geometry is built, its heights are set, the
\* origin is set if it is missing, the mesh is placed and the entry pushed
CreateAndAddTerrainMesh ==
    /\ meshPc = "call"
    /\ LET header == meshParsedData.header
           ncols == FxFloor(header.ncols)
           nrows == FxFloor(header.nrows)
           plane == PlaneGeometry(Max(1, ncols - 1), Max(1, nrows - 1))
           session == createAndAddTerrainMesh(
                          [origin |-> firstDemAbsoluteOrigin, loadedDEMs |-> loadedDEMs],
                          <<originalFileName>>, header)
       IN  /\ geometry' = [plane EXCEPT !.positions =
                              SetVertexHeights(meshParsedData, ncols, nrows, 0,
                                               plane.positions)]
           /\ firstDemAbsoluteOrigin' = session.origin
           /\ loadedDEMs' = session.loadedDEMs
           /\ sessionLog' = [op |-> "tiles", built |-> ArrPush(EmptyArray, header)]
    /\ meshPc' = "done"
    /\ UNCHANGED <<meshParsedData, pendingLoads>>
    /\ UNCHANGED <<MAX_POINTS_PER_CHUNK, fullParsedData, numChunksX, numChunksY, cy, cx,
                   resultsArray, chunkExtents, skippedChunks, returned, pc,
                   heap, chunkRefs>>
    /\ UNCHANGED <<parseVars, flowVars>>

(* The tiles handed to createAndAddTerrainMesh *)

\* ncols and nrows of a header: whole numbers and 2.5
MeshDims == {Fx(n) : n \in 1..MaxMeshDim} \cup {Fx(2) + 1}

\* what a cell of the grid can hold in place of an elevation
MeshHoles == {"none", "nodata", "NaN", "null", "short row", "no row"}

\* every cell holds its own elevation r*ncols + c + 2, but for the cell
\* (hr, hc): it holds nodata_value, NaN or null, or its row ends before it,
\* or the rows end before its row
MeshData(ncols, nrows, hr, hc, hole) ==
    LET rowsKept == IF hole = "no row" THEN hr ELSE nrows
    IN  [r \in 0..(rowsKept - 1) |->
            LET colsKept == IF hole = "short row" /\ r = hr THEN hc ELSE ncols
            IN  [c \in 0..(colsKept - 1) |->
                    IF r = hr /\ c = hc
                    THEN CASE hole = "nodata" -> Fx(DEFAULT_NODATA_VALUE)
                           [] hole = "NaN"    -> NaN
                           [] hole = "null"   -> nullNum
                           [] OTHER           -> Fx(r * ncols + c + 2)
                    ELSE Fx(r * ncols + c + 2)]]

MeshTile(ncolsFx, nrowsFx, hr, hc, hole) ==
    [header  |-> [ncols |-> ncolsFx, nrows |-> nrowsFx,
                  xllcorner |-> Fx(GridXllcorner), yllcorner |-> Fx(GridYllcorner),
                  cellsize |-> Fx(1), nodata_value |-> Fx(DEFAULT_NODATA_VALUE)],
     data    |-> MeshData(FxFloor(ncolsFx), FxFloor(nrowsFx), hr, hc, hole),
     minElev |-> Fx(1),
     maxElev |-> Fx(FxFloor(ncolsFx) * FxFloor(nrowsFx) + 1)]

MeshTiles ==
    UNION {{MeshTile(nc, nr, hr, hc, hole) :
                hr \in 0..(FxFloor(nr) - 1), hc \in 0..(FxFloor(nc) - 1),
                hole \in MeshHoles} :
           nc \in MeshDims, nr \in MeshDims}

InitMesh ==
    /\ meshParsedData \in MeshTiles
    /\ geometry = null
    /\ meshPc = "call"
    /\ firstDemAbsoluteOrigin \in
          {OriginUnset, [x |-> Fx(GridXllcorner) - Fx(8), y |-> Fx(GridYllcorner) - Fx(16)]}
    /\ loadedDEMs = EmptyArray
    /\ pendingLoads = {}
    /\ sessionLog = [op |-> "none", built |-> EmptyArray]
    /\ SplitIdle
    /\ ParseIdle
    /\ FlowIdle

NextMesh == CreateAndAddTerrainMesh

SpecMesh == InitMesh /\ [][NextMesh]_vars

----------------------------------------------------------------------------
(* The four operations, each called on its own *)

InitOperations == InitSplit \/ InitParse \/ InitFlow \/ InitMesh

NextOperations == NextSplit \/ NextParse \/ NextFlow \/ NextMesh

SpecOperations == InitOperations /\ [][NextOperations]_vars

----------------------------------------------------------------------------
(* Properties of processAndChunkDEM *)

\* the call has returned the chunks of the two for loops
SplitEmitted ==
    /\ pc = "done"
    /\ fullParsedData # null
    /\ returned = resultsArray

\* the call has returned after taking the branch for a grid over the budget
SplitBranchDone ==
    /\ pc = "done"
    /\ fullParsedData # null
    /\ TotalPoints(fullParsedData) > MAX_POINTS_PER_CHUNK

InExtent(e, r, c) ==
    /\ e.startRow <= r /\ r < e.endRow
    /\ e.startCol <= c /\ c < e.endCol

\* the single-element list holding the input under the original name
IsUnmodifiedInput(list) ==
    /\ ArrLen(list) = 1
    /\ list[0].name = <<originalFileName>>
    /\ list[0].parsedData = fullParsedData

\* C1: for a budget >= 1, the extents of the emitted tiles are pairwise
\* disjoint and cover [0,nrows) x [0,ncols) exactly; each original cell (r,c)
\* is in exactly one tile, at local index (r-startRow, c-startCol), with the
\* same value, and a tile holds no other cell.
C1_SplitterCoverage ==
    (SplitEmitted /\ MAX_POINTS_PER_CHUNK >= 1) =>
        LET h == fullParsedData.header
        IN  /\ ArrLen(returned) = ArrLen(chunkExtents)
            /\ \A i \in DOMAIN returned :
                 LET e == chunkExtents[i]
                     d == returned[i].parsedData.data
                 IN  /\ 0 <= e.startRow /\ e.startRow < e.endRow /\ e.endRow <= h.nrows
                     /\ 0 <= e.startCol /\ e.startCol < e.endCol /\ e.endCol <= h.ncols
                     /\ DOMAIN d = 0..(e.endRow - e.startRow - 1)
                     /\ \A lr \in DOMAIN d : DOMAIN d[lr] = 0..(e.endCol - e.startCol - 1)
            /\ \A r \in 0..(h.nrows - 1), c \in 0..(h.ncols - 1) :
                 /\ Cardinality({i \in DOMAIN returned : InExtent(chunkExtents[i], r, c)}) = 1
                 /\ \A i \in DOMAIN returned :
                      InExtent(chunkExtents[i], r, c) =>
                          returned[i].parsedData.data[r - chunkExtents[i].startRow]
                                                     [c - chunkExtents[i].startCol]
                              = fullParsedData.data[r][c]

\* a budget of 1 or more has split a grid into six or more tiles, two of
\* them of different widths
C1_Witness ==
    /\ SplitEmitted
    /\ MAX_POINTS_PER_CHUNK >= 1
    /\ ArrLen(returned) >= 6
    /\ \E i, j \in DOMAIN returned :
         returned[i].parsedData.header.ncols # returned[j].parsedData.header.ncols

TileWithinBudget(tile) ==
    tile.parsedData.header.ncols * tile.parsedData.header.nrows <= MAX_POINTS_PER_CHUNK

\* C2 as stated: whenever ncols*nrows > MAX_POINTS_PER_CHUNK, every tile of
\* the result has ncols*nrows <= MAX_POINTS_PER_CHUNK.
C2_AsStated ==
    SplitBranchDone => \A i \in DOMAIN returned : TileWithinBudget(returned[i])

\* C2 amended: whenever ncols*nrows > MAX_POINTS_PER_CHUNK and
\* MAX_POINTS_PER_CHUNK >= 1, every tile of the result has
\* ncols*nrows <= MAX_POINTS_PER_CHUNK.
C2_TileSizeBound ==
    (SplitBranchDone /\ MAX_POINTS_PER_CHUNK >= 1) =>
        \A i \in DOMAIN returned : TileWithinBudget(returned[i])

\* a split whose tiles are not all of one size, one of them exactly at the budget
C2_Witness ==
    /\ SplitBranchDone
    /\ MAX_POINTS_PER_CHUNK >= 2
    /\ \E i, j \in DOMAIN returned :
         /\ TotalPoints(returned[i].parsedData) = MAX_POINTS_PER_CHUNK
         /\ TotalPoints(returned[j].parsedData) < MAX_POINTS_PER_CHUNK

\* the world point of the original cell (r, c), through the tile i holding it
CellWorldPoint(i, r, c) ==
    gridToWorld(c - chunkExtents[i].startCol, r - chunkExtents[i].startRow,
                returned[i].parsedData, firstDemAbsoluteOrigin)

\* C3: for a split grid, any two original cells (r1,c1), (r2,c2) mapped
\* through the tiles holding them are ((c2-c1)*cellsize, (r2-r1)*cellsize)
\* apart in XY.
C3_TileAlignment ==
    SplitEmitted =>
        \A i, j \in DOMAIN returned :
          \A r1 \in chunkExtents[i].startRow..(chunkExtents[i].endRow - 1),
             c1 \in chunkExtents[i].startCol..(chunkExtents[i].endCol - 1),
             r2 \in chunkExtents[j].startRow..(chunkExtents[j].endRow - 1),
             c2 \in chunkExtents[j].startCol..(chunkExtents[j].endCol - 1) :
                LET p1 == CellWorldPoint(i, r1, c1)
                    p2 == CellWorldPoint(j, r2, c2)
                IN  (p1 # null /\ p2 # null) =>
                        /\ p2.x - p1.x = (c2 - c1) * fullParsedData.header.cellsize
                        /\ p2.y - p1.y = (r2 - r1) * fullParsedData.header.cellsize

\* the fallback of the partition loop was taken
FallbackTaken ==
    /\ pc = "done"
    /\ fullParsedData # null
    /\ CannotSplit(fullParsedData.header, numChunksX, numChunksY)

\* C4: for every budget, 0 included, the partition loop is left, for the
\* chunk loops or for the return; it never runs past ncols+1 / nrows+1
\* chunks, and when it stops because both counts exceed the dimensions the
\* result is the unmodified input alone, under the original name.
C4_TerminationFailSafe ==
    /\ (pc = "while") ~> (pc \in {"for", "done"})
    /\ [](pc = "while" =>
            /\ numChunksX <= fullParsedData.header.ncols + 1
            /\ numChunksY <= fullParsedData.header.nrows + 1)
    /\ [](FallbackTaken => IsUnmodifiedInput(returned))

\* the fallback taken on a grid of two or more rows and columns, budget 0
C4_Witness ==
    /\ FallbackTaken
    /\ MAX_POINTS_PER_CHUNK = 0
    /\ fullParsedData.header.ncols >= 2
    /\ fullParsedData.header.nrows >= 2
    /\ fullParsedData.header.ncols # fullParsedData.header.nrows

\* C5: a grid with ncols*nrows <= MAX_POINTS_PER_CHUNK is returned as one
\* element, under the original name, with the input as its parsedData.
C5_PassThrough ==
    (/\ pc = "done"
     /\ fullParsedData # null
     /\ TotalPoints(fullParsedData) <= MAX_POINTS_PER_CHUNK)
        => IsUnmodifiedInput(returned)

\* a grid exactly at the budget was passed through
C5_Witness ==
    /\ pc = "done"
    /\ fullParsedData # null
    /\ TotalPoints(fullParsedData) = MAX_POINTS_PER_CHUNK
    /\ fullParsedData.header.ncols >= 2
    /\ IsUnmodifiedInput(returned)

----------------------------------------------------------------------------
(* Properties of parseASCIIGrid *)

ParseDone == parsePc = "done"

ParseSucceeded == parsePc = "done" /\ parseResult # null

GridFamily == fileShape.family = "grid"

\* the number a header token stands for is missing or not a number
TokenMissingOrNaN(tok) == tok = Absent \/ isNaN(parseFloat(tok))

\* the three required tokens give a usable header
RequiredUsable(req) ==
    /\ ~TokenMissingOrNaN(req[1]) /\ FxFloor(parseFloat(req[1])) >= 1
    /\ ~TokenMissingOrNaN(req[2]) /\ FxFloor(parseFloat(req[2])) >= 1
    /\ ~TokenMissingOrNaN(req[3])

\* a line of numbers
NumericLine(line) == ~TrimmedEmpty(line) /\ AllNumeric(SelectSeq(line, NotSpace))

\* the k-th value of a data line of the file, as the parser is to read it
ExpectedCell(line, k, nodata_value) ==
    LET toks == SelectSeq(line, NotSpace)
    IN  IF line = <<>> THEN nodata_value
        ELSE IF toks = <<>> THEN (IF k = 0 THEN NaN ELSE nodata_value)
        ELSE IF k < Len(toks) THEN parseFloat(toks[k + 1])
        ELSE nodata_value

\* the i-th line of the file counted from its first data line; the empty
\* line when the file has no such line
LineFromFirstData(i) ==
    IF i < Len(fileShape.dataLines) THEN fileShape.dataLines[i + 1] ELSE <<>>

\* the rows of the result are the lines of the file from the first data line on
RowsFromFirstDataLine ==
    LET h == parseResult.header
    IN  \A i \in DOMAIN parseResult.data :
          \A k \in DOMAIN parseResult.data[i] :
             parseResult.data[i][k]
                 = ExpectedCell(LineFromFirstData(i), k, h["nodata_value"])

DefaultOf(key) ==
    CASE key = "xllcorner"    -> Fx(DEFAULT_XLLCORNER)
      [] key = "yllcorner"    -> Fx(DEFAULT_YLLCORNER)
      [] key = "nodata_value" -> Fx(DEFAULT_NODATA_VALUE)

\* C6: a file with valid ncols, nrows and cellsize lines and nrows lines of
\* numbers parses to a non-null result whichever of xllcorner, yllcorner,
\* nodata_value are omitted; each omitted field has its default and the rows
\* are read from the first data line.
C6_OptionalKeysNotFatal ==
    (/\ ParseDone
     /\ GridFamily
     /\ RequiredUsable(fileShape.req)
     /\ fileShape.omitted # {}
     /\ Len(fileShape.dataLines) = FxFloor(parseFloat(fileShape.req[2]))
     /\ \A k \in 1..Len(fileShape.dataLines) : NumericLine(fileShape.dataLines[k]))
        => /\ parseResult # null
           /\ \A key \in fileShape.omitted : parseResult.header[key] = DefaultOf(key)
           /\ ArrLen(parseResult.data) = Len(fileShape.dataLines)
           /\ RowsFromFirstDataLine

\* C7: the result is null whenever ncols, nrows or cellsize is missing or not
\* a number, and whenever floor(ncols) <= 0 or floor(nrows) <= 0.
C7_MalformedHeaderRejected ==
    (/\ ParseDone
     /\ GridFamily
     /\ ~RequiredUsable(fileShape.req))
        => parseResult = null

\* C8: no exception leaves the call; it returns null or a record
\* {header, data, minElev, maxElev}, and null exactly when its catch clause
\* caught an error.
C8_NeverThrows ==
    ParseDone =>
        /\ ~parseThrown
        /\ \/ parseResult = null
           \/ DOMAIN parseResult = {"header", "data", "minElev", "maxElev"}
        /\ (parseResult = null) <=> (parseError # "none")

\* the RangeError of new Array(ncols) was caught and null returned
C8_Witness ==
    /\ ParseDone
    /\ parseError = "RangeError: Invalid array length"
    /\ parseResult = null
    /\ ~parseThrown

\* C9: a successful parse has exactly floor(nrows) rows of exactly
\* floor(ncols) entries; row i holds the leading tokens of the i-th line from
\* the first data line on, padded on the right with nodata_value or truncated;
\* an empty line or a line past the end of the file is an all-nodata row.
C9_ParsedGridShape ==
    (/\ ParseSucceeded
     /\ GridFamily
     /\ RequiredUsable(fileShape.req)
     /\ fileShape.dataLines # <<>>
     /\ NumericLine(fileShape.dataLines[1]))
        => LET h == parseResult.header
           IN  /\ ArrLen(parseResult.data) = FxFloor(h["nrows"])
               /\ \A i \in DOMAIN parseResult.data :
                    ArrLen(parseResult.data[i]) = FxFloor(h["ncols"])
               /\ RowsFromFirstDataLine

\* the cells of the result that are neither nodata_value nor NaN
ValidCells ==
    {parseResult.data[i][k] : <<i, k>> \in
        {ik \in (DOMAIN parseResult.data) \X (0..FxFloor(parseResult.header["ncols"]) - 1) :
            /\ ik[2] \in DOMAIN parseResult.data[ik[1]]
            /\ parseResult.data[ik[1]][ik[2]] # parseResult.header["nodata_value"]
            /\ ~isNaN(parseResult.data[ik[1]][ik[2]])}}

\* C10: minElev and maxElev of a successful parse are the minimum and the
\* maximum over the cells that are neither nodata_value nor NaN, and both 0
\* when there is no such cell.
C10_ParserMinMax ==
    ParseSucceeded =>
        IF ValidCells = {}
        THEN parseResult.minElev = 0 /\ parseResult.maxElev = 0
        ELSE /\ parseResult.minElev \in ValidCells
             /\ parseResult.maxElev \in ValidCells
             /\ \A v \in ValidCells :
                  parseResult.minElev <= v /\ v <= parseResult.maxElev

----------------------------------------------------------------------------
(* Properties of worldToGrid, gridToWorld and calculateRaindropPath *)

FlowDone == flowPc = "done"

OriginSet == firstDemAbsoluteOrigin.x # nullNum /\ firstDemAbsoluteOrigin.y # nullNum

\* the tile of the call, when the entry has one
HasTile == IF demEntry = null THEN FALSE ELSE demEntry.demData # null

\* the in-bounds cells of a tile whose elevation is neither nodata_value nor NaN
ValidCellsOf(demData) ==
    {cell \in [col : 0..(demData.header.ncols - 1), row : 0..(demData.header.nrows - 1)] :
        /\ demData.data[cell.row][cell.col] # demData.header.nodata_value
        /\ ~isNaN(demData.data[cell.row][cell.col])}

\* C11: with the origin set, for every tile header with cellsize > 0 and every
\* in-bounds cell whose elevation is neither nodata_value nor NaN,
\* worldToGrid(gridToWorld(col, row, tile), tile.header) is exactly {col, row}.
C11_CoordinateInverse ==
    (HasTile /\ OriginSet) =>
        (demEntry.demData.header.cellsize > 0 =>
            \A cell \in ValidCellsOf(demEntry.demData) :
                worldToGrid(gridToWorld(cell.col, cell.row, demEntry.demData,
                                        firstDemAbsoluteOrigin),
                            demEntry.demData.header, firstDemAbsoluteOrigin) = cell)

\* a path of two points or more on a tile away from the origin: every point
\* of it maps back to the cell it was made from
C11_Witness ==
    /\ FlowDone
    /\ OriginSet
    /\ HasTile
    /\ demEntry.demData.header.xllcorner # firstDemAbsoluteOrigin.x
    /\ demEntry.demData.header.ncols >= 2
    /\ ArrLen(flowResult) >= 2
    /\ \A k \in DOMAIN flowResult :
          worldToGrid(flowResult[k], demEntry.demData.header, firstDemAbsoluteOrigin)
              = [col |-> pathCells[k].col, row |-> pathCells[k].row]

\* Math.floor(a / b) of JavaScript, for whole a and b
FloorOfQuotient(a, b) ==
    IF b > 0 THEN FloorDiv(a, b)
    ELSE IF b < 0 THEN FloorDiv(-a, -b)
    ELSE IF a > 0 THEN PosInfinity
    ELSE IF a < 0 THEN NegInfinity
    ELSE NaN

\* the col and row of the click of the call, as the formula of C12 gives them
ComputedCell ==
    LET h == demEntry.demData.header
        p == initialClickSceneWorldPoint
        o == firstDemAbsoluteOrigin
    IN  [col |-> FloorOfQuotient(
                    p.x + o.x - (h.xllcorner - Half((h.ncols - 1) * h.cellsize)),
                    h.cellsize),
         row |-> FloorOfQuotient(
                    p.y + o.y - (h.yllcorner - Half((h.nrows - 1) * h.cellsize)),
                    h.cellsize)]

\* col or row is a number outside [0, ncols) or [0, nrows)
ComputedCellOutside ==
    LET h == demEntry.demData.header
    IN  \/ (~isNaN(ComputedCell.col) /\ (ComputedCell.col < 0 \/ ComputedCell.col >= h.ncols))
        \/ (~isNaN(ComputedCell.row) /\ (ComputedCell.row < 0 \/ ComputedCell.row >= h.nrows))

WorldToGridOfClick ==
    worldToGrid(initialClickSceneWorldPoint, demEntry.demData.header,
                firstDemAbsoluteOrigin)

\* C12 as stated: worldToGrid returns null when the origin is unset and when
\* the computed col or row lies outside the tile; in every other case it
\* returns exactly the computed {col, row}.
C12_AsStated ==
    HasTile =>
        IF ~OriginSet THEN WorldToGridOfClick = null
        ELSE IF ComputedCellOutside THEN WorldToGridOfClick = null
        ELSE WorldToGridOfClick = ComputedCell

\* C12: for a header with cellsize > 0, worldToGrid returns null when the
\* origin is unset and when the computed col or row lies outside the tile, and
\* exactly the computed {col, row} in every other case, so a non-null result
\* has 0 <= col < ncols and 0 <= row < nrows; for a header with
\* cellsize <= 0 it returns null.
C12_WorldToGridFailures ==
    HasTile =>
        /\ demEntry.demData.header.cellsize <= 0 => WorldToGridOfClick = null
        /\ demEntry.demData.header.cellsize > 0 =>
              IF ~OriginSet THEN WorldToGridOfClick = null
              ELSE IF ComputedCellOutside THEN WorldToGridOfClick = null
              ELSE WorldToGridOfClick = ComputedCell
        /\ WorldToGridOfClick # null =>
              /\ 0 <= WorldToGridOfClick.col
              /\ WorldToGridOfClick.col < demEntry.demData.header.ncols
              /\ 0 <= WorldToGridOfClick.row
              /\ WorldToGridOfClick.row < demEntry.demData.header.nrows

\* a click on the first column past the tile, with the origin set: the call
\* was rejected
C12_Witness ==
    /\ FlowDone
    /\ HasTile
    /\ OriginSet
    /\ demEntry.demData.header.cellsize > 0
    /\ ComputedCell.col = demEntry.demData.header.ncols
    /\ ComputedCell.row = 0
    /\ WorldToGridOfClick = null
    /\ flowResult = EmptyArray

\* the number of steps calculateRaindropPath has left at most: one for each
\* iteration of the loop, one to enter it and one to leave it
StepsLeft ==
    IF flowPc = "done" THEN 0
    ELSE IF flowPc = "for" THEN MAX_PATH_STEPS - step + 1
    ELSE MAX_PATH_STEPS + 2

\* C13: every call of calculateRaindropPath returns after at most
\* MAX_PATH_STEPS iterations of its loop, with a path of at most
\* MAX_PATH_STEPS + 1 points: every step of the call uses up one of the steps
\* left, of which there are never less than none, the loop counter never
\* passes MAX_PATH_STEPS and the path never passes MAX_PATH_STEPS + 1 points.
C13_FlowTermination ==
    /\ [][StepsLeft' < StepsLeft]_vars
    /\ [](StepsLeft >= 0)
    /\ [](step <= MAX_PATH_STEPS)
    /\ [](ArrLen(pathPoints) <= MAX_PATH_STEPS + 1)
    /\ [](flowPc = "done" => ArrLen(flowResult) <= MAX_PATH_STEPS + 1)

\* the step budget cut a path short: the last cell still has a lower neighbour
C13_Witness ==
    /\ FlowDone
    /\ step = MAX_PATH_STEPS
    /\ ArrLen(flowResult) = MAX_PATH_STEPS + 1
    /\ Steepest(currentGridPos, currentElevation, demEntry.demData).nextGridPos # null

\* the start of the call cannot be established: invalid entry (no entry, no
\* tile, no mesh, or a header worldToGrid rejects), origin unset, click mapped
\* outside the tile, or starting cell holding nodata_value or NaN
StartCannotBeEstablished ==
    IF InvalidEntry(demEntry) THEN TRUE
    ELSE IF demEntry.demData.header.cellsize <= 0 THEN TRUE
    ELSE IF ~OriginSet THEN TRUE
    ELSE IF ComputedCellOutside THEN TRUE
    ELSE LET e == demEntry.demData.data[ComputedCell.row][ComputedCell.col]
         IN  e = demEntry.demData.header.nodata_value \/ isNaN(e)

ClaimedOrder ==
    << <<-1, 0>>, <<1, 0>>, <<0, -1>>, <<0, 1>>,
       <<-1, -1>>, <<1, -1>>, <<-1, 1>>, <<1, 1>> >>

\* the i-th neighbour of a cell, in the order of C15
NeighbourCell(cell, i) ==
    [col |-> cell.col + ClaimedOrder[i][1], row |-> cell.row + ClaimedOrder[i][2]]

\* the elevation of an in-bounds cell that holds neither nodata_value nor NaN
ElevationOf(demData, cell) == demData.data[cell.row][cell.col]

\* the neighbours of a cell that are in bounds, hold neither nodata_value nor
\* NaN, and are strictly lower than the cell
LowerNeighbours(demData, cell) ==
    {i \in 1..Len(ClaimedOrder) :
        /\ NeighbourCell(cell, i) \in ValidCellsOf(demData)
        /\ ElevationOf(demData, NeighbourCell(cell, i)) < ElevationOf(demData, cell)}

\* the square of the distance to the i-th neighbour: 1, or 2 on a diagonal
DistSquared(i) == ClaimedOrder[i][1] * ClaimedOrder[i][1]
                    + ClaimedOrder[i][2] * ClaimedOrder[i][2]

\* the slope to neighbour i is greater than the slope to neighbour j:
\* di / (sqrt(DistSquared(i)) * cellsize) > dj / (sqrt(DistSquared(j)) * cellsize)
\* for the drops di, dj > 0 and cellsize > 0
SlopeGreater(demData, cell, i, j) ==
    LET di == ElevationOf(demData, cell) - ElevationOf(demData, NeighbourCell(cell, i))
        dj == ElevationOf(demData, cell) - ElevationOf(demData, NeighbourCell(cell, j))
    IN  di * di * DistSquared(j) > dj * dj * DistSquared(i)

\* the neighbours of maximal slope among the lower neighbours
SteepestNeighbours(demData, cell) ==
    {i \in LowerNeighbours(demData, cell) :
        \A j \in LowerNeighbours(demData, cell) : ~SlopeGreater(demData, cell, j, i)}

\* C15: every move of the path goes to the in-bounds, non-NODATA, strictly
\* lower neighbour of maximal slope (drop / (dist * cellsize), dist 1 or
\* sqrt(2)), and among neighbours of equal maximal slope to the earliest in the
\* order (-1,0),(1,0),(0,-1),(0,1),(-1,-1),(1,-1),(-1,1),(1,1).
C15_SteepestDescent ==
    \A k \in DOMAIN pathCells :
        k >= 1 =>
            LET from == [col |-> pathCells[k - 1].col, row |-> pathCells[k - 1].row]
                to   == [col |-> pathCells[k].col, row |-> pathCells[k].row]
                best == SteepestNeighbours(demEntry.demData, from)
            IN  /\ best # {}
                /\ \E i \in best :
                      /\ to = NeighbourCell(from, i)
                      /\ \A j \in best : i <= j

\* a move made where two neighbours had the same maximal slope and another,
\* lower neighbour a smaller one
C15_Witness ==
    /\ FlowDone
    /\ ArrLen(pathCells) >= 2
    /\ LET from == [col |-> pathCells[0].col, row |-> pathCells[0].row]
       IN  /\ Cardinality(SteepestNeighbours(demEntry.demData, from)) >= 2
           /\ LowerNeighbours(demEntry.demData, from)
                 # SteepestNeighbours(demEntry.demData, from)

\* the last cell of the path
LastCell ==
    [col |-> pathCells[ArrLen(pathCells) - 1].col,
     row |-> pathCells[ArrLen(pathCells) - 1].row]

\* every cell of the tile holds the same elevation
FlatTile(demData) ==
    \A r1, r2 \in DOMAIN demData.data :
        \A c1 \in DOMAIN demData.data[r1], c2 \in DOMAIN demData.data[r2] :
            demData.data[r1][c1] = demData.data[r2][c2]

\* C16: a returned path of fewer than MAX_PATH_STEPS + 1 points ends at a cell
\* without an in-bounds, non-NODATA, strictly lower neighbour; the path has
\* exactly 1 point if and only if the valid starting cell has no such
\* neighbour; on a flat tile every valid start gives a path of exactly 1 point.
C16_Pooling ==
    (FlowDone /\ flowResult # EmptyArray) =>
        /\ ArrLen(flowResult) < MAX_PATH_STEPS + 1 =>
              LowerNeighbours(demEntry.demData, LastCell) = {}
        /\ (ArrLen(flowResult) = 1)
              <=> (LowerNeighbours(demEntry.demData, ComputedCell) = {})
        /\ FlatTile(demEntry.demData) => ArrLen(flowResult) = 1

\* a path of two points or more that stopped, within the step budget, next
\* to a lower cell that holds nodata_value
C16_Witness ==
    /\ FlowDone
    /\ ArrLen(flowResult) >= 2
    /\ ArrLen(flowResult) < MAX_PATH_STEPS + 1
    /\ LowerNeighbours(demEntry.demData, LastCell) = {}
    /\ \E i \in 1..Len(ClaimedOrder) :
          /\ getElevationAtGridUnchecked(NeighbourCell(LastCell, i).col,
                                         NeighbourCell(LastCell, i).row,
                                         demEntry.demData)
                = demEntry.demData.header.nodata_value
          /\ demEntry.demData.header.nodata_value < currentElevation

\* the minimum cells (mc, mr) for which the tile is the funnel of C17: no
\* cell holds nodata_value or NaN and every cell holds its Chebyshev
\* distance to (mc, mr)
FunnelMinima(demData) ==
    {m \in [col : 0..(demData.header.ncols - 1), row : 0..(demData.header.nrows - 1)] :
        /\ demData.data = FunnelData(demData.header.ncols, demData.header.nrows,
                                     m.col, m.row)
        /\ \A r \in DOMAIN demData.data : \A c \in DOMAIN demData.data[r] :
              /\ demData.data[r][c] # demData.header.nodata_value
              /\ ~isNaN(demData.data[r][c])}

\* C17: on a funnel tile, a start at Chebyshev distance d <= MAX_PATH_STEPS
\* from the minimum cell gives a path of exactly d moves (d + 1 points) whose
\* last point is the centre of the minimum cell.
C17_FunnelPathLength ==
    (FlowDone /\ flowResult # EmptyArray) =>
        \A m \in FunnelMinima(demEntry.demData) :
            LET d == Chebyshev(ComputedCell.col - m.col, ComputedCell.row - m.row)
            IN  d <= MAX_PATH_STEPS =>
                    /\ ArrLen(flowResult) = d + 1
                    /\ LastCell = m
                    /\ flowResult[d] = gridToWorld(m.col, m.row, demEntry.demData,
                                                   firstDemAbsoluteOrigin)
                    /\ flowResult[d].z = 0

\* a path of two moves down a funnel, the first of them diagonal
C17_Witness ==
    /\ FlowDone
    /\ HasTile
    /\ FunnelMinima(demEntry.demData) # {}
    /\ ArrLen(flowResult) = 3
    /\ LastCell \in FunnelMinima(demEntry.demData)
    /\ pathCells[1].col # pathCells[0].col
    /\ pathCells[1].row # pathCells[0].row

\* the call is made on the tile of C18: the grid [[5,5,5],[5,0,5],[5,5,5]],
\* cellsize 1, xllcorner = yllcorner = 0, nodata_value -9999, origin (0,0)
BowlScenario ==
    /\ HasTile
    /\ demEntry.mesh # null
    /\ demEntry.demData.data = BowlData
    /\ demEntry.demData.header = [ncols |-> 3, nrows |-> 3,
                                  xllcorner |-> Fx(0), yllcorner |-> Fx(0),
                                  cellsize |-> Fx(1), nodata_value |-> -9999]
    /\ firstDemAbsoluteOrigin = [x |-> Fx(0), y |-> Fx(0)]

\* C18: on the tile of the scenario a start mapped to one of the 8 outer
\* cells gives a path of exactly 2 points that ends at the centre cell
\* (elevation 0), and a start mapped to the centre cell a path of exactly
\* 1 point.
C18_BowlScenario ==
    (FlowDone /\ BowlScenario /\ ~ComputedCellOutside) =>
        IF ComputedCell = [col |-> 1, row |-> 1]
        THEN /\ ArrLen(flowResult) = 1
             /\ flowResult[0].z = 0
        ELSE /\ ArrLen(flowResult) = 2
             /\ flowResult[0].z = 5
             /\ LastCell = [col |-> 1, row |-> 1]
             /\ flowResult[1] = gridToWorld(1, 1, demEntry.demData, firstDemAbsoluteOrigin)
             /\ flowResult[1].z = 0

\* a start in the corner cell (2, 2) of the scenario reached the centre
C18_Witness ==
    /\ FlowDone
    /\ BowlScenario
    /\ ComputedCell = [col |-> 2, row |-> 2]
    /\ ArrLen(flowResult) = 2
    /\ LastCell = [col |-> 1, row |-> 1]
    /\ MAX_PATH_STEPS = SourceMaxPathSteps

----------------------------------------------------------------------------
(* Properties of the session *)

CornerOf(header) == [x |-> header.xllcorner, y |-> header.yllcorner]

\* C19: the first createAndAddTerrainMesh call made while the origin is null
\* sets it to the (xllcorner, yllcorner) of its tile; an origin that is set
\* changes only by being reset to null, and that only in clearLoadedDEMs or
\* at the start of a file load made while loadedDEMs is empty; an origin that
\* is null changes only by a tile being built.
C19_OriginSetOnce ==
    [][/\ (firstDemAbsoluteOrigin = OriginUnset /\ sessionLog'.op = "tiles"
              /\ sessionLog'.built # EmptyArray)
          => firstDemAbsoluteOrigin' = CornerOf(sessionLog'.built[0])
       /\ (firstDemAbsoluteOrigin # OriginUnset
              /\ firstDemAbsoluteOrigin' # firstDemAbsoluteOrigin)
          => /\ firstDemAbsoluteOrigin' = OriginUnset
             /\ \/ sessionLog'.op = "clear"
                \/ (sessionLog'.op = "load" /\ ArrLen(loadedDEMs) = 0)
       /\ (firstDemAbsoluteOrigin = OriginUnset
              /\ firstDemAbsoluteOrigin' # firstDemAbsoluteOrigin)
          => (sessionLog'.op = "tiles" /\ sessionLog'.built # EmptyArray)
      ]_vars

\* a tile of another corner was built after the origin had been set by the
\* first tile, and the origin is still the corner of the first tile
C19_Witness ==
    /\ sessionLog.op = "tiles"
    /\ ArrLen(sessionLog.built) = 1
    /\ ArrLen(loadedDEMs) >= 2
    /\ firstDemAbsoluteOrigin = CornerOf(loadedDEMs[0].header)
    /\ firstDemAbsoluteOrigin # CornerOf(sessionLog.built[0])

\* C20: in every reachable state the mesh of every entry of loadedDEMs is at
\* (header.xllcorner - origin.x, header.yllcorner - origin.y, 0) for the
\* current origin, and the first tile of a session is at (0, 0, 0).
C20_TilePlacement ==
    /\ \A k \in DOMAIN loadedDEMs :
          /\ firstDemAbsoluteOrigin # OriginUnset
          /\ loadedDEMs[k].position
                = [x |-> loadedDEMs[k].header.xllcorner - firstDemAbsoluteOrigin.x,
                   y |-> loadedDEMs[k].header.yllcorner - firstDemAbsoluteOrigin.y,
                   z |-> 0]
    /\ loadedDEMs # EmptyArray => loadedDEMs[0].position = [x |-> 0, y |-> 0, z |-> 0]

\* the first tile at (0, 0, 0) and another tile away from it, while a file
\* load is still waiting for its text
C20_Witness ==
    /\ ArrLen(loadedDEMs) >= 2
    /\ loadedDEMs[0].position = [x |-> 0, y |-> 0, z |-> 0]
    /\ \E k \in DOMAIN loadedDEMs : loadedDEMs[k].position.x # 0
    /\ pendingLoads # {}

----------------------------------------------------------------------------
(* Further properties of processAndChunkDEM *)

\* the chunk row index and the chunk column index in the name of a tile
TileCy(tile) == tile.name[3]

TileCx(tile) == tile.name[5]

\* C21: the tile (cy, cx) of a numChunksY x numChunksX partition, with
\* startRow = floor(cy*nrows/numChunksY), endRow = floor((cy+1)*nrows/numChunksY)
\* and the same for the columns, has the header ncols = endCol - startCol,
\* nrows = endRow - startRow, xllcorner = original.xllcorner + startCol*cellsize,
\* yllcorner = original.yllcorner + (original.nrows - endRow)*cellsize, and
\* the cellsize and the nodata_value of the original.
C21_DerivedTileHeader ==
    \A i \in DOMAIN resultsArray :
        LET tile == resultsArray[i]
            original == fullParsedData.header
            startRow == (TileCy(tile) * original.nrows) \div numChunksY
            endRow == ((TileCy(tile) + 1) * original.nrows) \div numChunksY
            startCol == (TileCx(tile) * original.ncols) \div numChunksX
            endCol == ((TileCx(tile) + 1) * original.ncols) \div numChunksX
        IN  /\ TileCy(tile) \in 0..(numChunksY - 1)
            /\ TileCx(tile) \in 0..(numChunksX - 1)
            /\ tile.parsedData.header =
                  [ncols |-> endCol - startCol,
                   nrows |-> endRow - startRow,
                   xllcorner |-> original.xllcorner + startCol * original.cellsize,
                   yllcorner |-> original.yllcorner
                                    + (original.nrows - endRow) * original.cellsize,
                   cellsize |-> original.cellsize,
                   nodata_value |-> original.nodata_value]

\* a split has returned a tile that starts right of the first column and
\* ends above the last row of the original
C21_Witness ==
    /\ SplitEmitted
    /\ \E i \in DOMAIN returned :
         /\ returned[i].parsedData.header.xllcorner > fullParsedData.header.xllcorner
         /\ returned[i].parsedData.header.yllcorner > fullParsedData.header.yllcorner
         /\ returned[i].parsedData.header.ncols >= 2

----------------------------------------------------------------------------
(* Properties of createAndAddTerrainMesh *)

\* the vertex of column i and row j of a plane geometry
VertexOf(plane, i, j) == i + j * plane.gridX1

\* the height the policy gives the cell (i, j) of a tile
PolicyHeight(parsedData, i, j) ==
    LET data == parsedData.data
    IN  IF /\ j \in DOMAIN data
           /\ i \in DOMAIN data[j]
           /\ data[j][i] \notin {nullNum, NaN, parsedData.header.nodata_value}
        THEN data[j][i]
        ELSE parsedData.minElev

\* C22: for every tile and every vertex (col = i, row = j) with 0 <= i < ncols
\* and 0 <= j < nrows, createAndAddTerrainMesh sets the height of the vertex
\* to data[j][i] when that is a number other than nodata_value, and to
\* minElev when it is missing, undefined, null, NaN or nodata_value; no
\* vertex is left out.
C22_MeshNodataPolicy ==
    meshPc = "done" =>
        \A i \in 0..(FxFloor(meshParsedData.header.ncols) - 1),
           j \in 0..(FxFloor(meshParsedData.header.nrows) - 1) :
            /\ VertexOf(geometry, i, j) \in DOMAIN geometry.positions
            /\ geometry.positions[VertexOf(geometry, i, j)]
                  = PolicyHeight(meshParsedData, i, j)

----------------------------------------------------------------------------
(* Properties of the four operations together *)

\* the references a chunk holds
RefsHeldBy(refs) == {refs.header} \cup {refs.rows[r] : r \in DOMAIN refs.rows}

\* the references of the argument of processAndChunkDEM
ArgumentRefs ==
    IF fullParsedData = null THEN {}
    ELSE {ArgumentHeaderRef} \cup {ArgumentRowRef(r) : r \in DOMAIN fullParsedData.data}

\* C23: no operation changes its argument: parseASCIIGrid,
\* processAndChunkDEM, createAndAddTerrainMesh and calculateRaindropPath leave
\* the header, the rows and minElev/maxElev of what they are given as they
\* are, and no step changes an object that exists; the chunks of a split hold
\* a header and rows of their own, shared neither with the argument nor with
\* another chunk.
C23_ArgumentsUnchanged ==
    /\ [][/\ \A ref \in DOMAIN heap : ref \in DOMAIN heap' /\ heap'[ref] = heap[ref]
          /\ pc # "idle" => fullParsedData' = fullParsedData
          /\ parsePc # "idle" => fileContent' = fileContent
          /\ meshPc # "idle" => meshParsedData' = meshParsedData
          /\ flowPc # "idle" => demEntry' = demEntry
         ]_vars
    /\ [](fullParsedData # null =>
             /\ heap[ArgumentHeaderRef] = fullParsedData.header
             /\ \A r \in DOMAIN fullParsedData.data :
                   heap[ArgumentRowRef(r)] = fullParsedData.data[r])
    /\ [](\A i \in DOMAIN chunkRefs :
             /\ RefsHeldBy(chunkRefs[i]) \cap ArgumentRefs = {}
             /\ \A k \in DOMAIN chunkRefs :
                   k # i => RefsHeldBy(chunkRefs[i]) \cap RefsHeldBy(chunkRefs[k]) = {}
             /\ heap[chunkRefs[i].header] = resultsArray[i].parsedData.header
             /\ \A r \in DOMAIN chunkRefs[i].rows :
                   heap[chunkRefs[i].rows[r]] = resultsArray[i].parsedData.data[r])

\* a split has returned two or more chunks, each with a header of its own
\* that differs from the header of the argument
C23_Witness ==
    /\ SplitEmitted
    /\ ArrLen(chunkRefs) >= 2
    /\ ArrLen(chunkRefs) = ArrLen(returned)
    /\ \A i \in DOMAIN chunkRefs : heap[chunkRefs[i].header] # heap[ArgumentHeaderRef]

----------------------------------------------------------------------------
(* Further properties of calculateRaindropPath *)

\* the centre of the cell (col, row) of a tile in the scene: half a cell
\* past the cell's edge, the tile's plane being centred on its corner
CentreOfCell(header, origin, col, row) ==
    [x |-> header.xllcorner - origin.x
              + Half((2 * col + 1) * header.cellsize)
              - Half((header.ncols - 1) * header.cellsize),
     y |-> header.yllcorner - origin.y
              + Half((2 * row + 1) * header.cellsize)
              - Half((header.nrows - 1) * header.cellsize)]

CellOfPath(k) == [col |-> pathCells[k].col, row |-> pathCells[k].row]

\* C24: every point of a returned path is the centre of an in-bounds cell of
\* the tile whose elevation is neither nodata_value nor NaN, its height is
\* the elevation of that cell, and consecutive points belong to cells that
\* are 8-neighbours.
C24_PathOnTile ==
    FlowDone =>
        /\ ArrLen(flowResult) > 0 => ArrLen(flowResult) = ArrLen(pathCells)
        /\ \A k \in DOMAIN flowResult :
             LET demData == demEntry.demData
                 cell == CellOfPath(k)
                 centre == CentreOfCell(demData.header, firstDemAbsoluteOrigin,
                                        cell.col, cell.row)
             IN  /\ cell \in ValidCellsOf(demData)
                 /\ flowResult[k] = [x |-> centre.x, y |-> centre.y,
                                     z |-> ElevationOf(demData, cell)]
                 /\ k > 0 =>
                      /\ Abs(cell.col - CellOfPath(k - 1).col) <= 1
                      /\ Abs(cell.row - CellOfPath(k - 1).row) <= 1
                      /\ cell # CellOfPath(k - 1)

\* a path of two or more points was returned on a tile that has a cell of
\* nodata_value or NaN next to a cell of the path
C24_Witness ==
    /\ FlowDone
    /\ ArrLen(flowResult) >= 2
    /\ \E k \in DOMAIN pathCells, i \in 1..Len(ClaimedOrder) :
         LET n == NeighbourCell(CellOfPath(k), i)
         IN  /\ n.col \in 0..(demEntry.demData.header.ncols - 1)
             /\ n.row \in 0..(demEntry.demData.header.nrows - 1)
             /\ n \notin ValidCellsOf(demEntry.demData)

\* C26: along every returned path the elevations of the cells go strictly
\* down from one point to the next, so no cell occurs twice and a path over a
\* tile of N valid cells has at most N points.
C26_StrictDescent ==
    FlowDone =>
        /\ \A k \in DOMAIN flowResult :
             k > 0 => /\ flowResult[k].z < flowResult[k - 1].z
                      /\ ElevationOf(demEntry.demData, CellOfPath(k))
                            < ElevationOf(demEntry.demData, CellOfPath(k - 1))
        /\ \A k, m \in DOMAIN flowResult : k # m => CellOfPath(k) # CellOfPath(m)
        /\ ArrLen(flowResult) > 0 =>
              ArrLen(flowResult) <= Cardinality(ValidCellsOf(demEntry.demData))

\* a path of three points was returned
C26_Witness ==
    /\ FlowDone
    /\ ArrLen(flowResult) >= 3
    /\ flowResult[2].z < flowResult[0].z

\* C30: in a call that has started a path, gridToWorld of the chosen cell is
\* never null: the loop ends only with no lower neighbour left or with the
\* step budget used up, and every chosen cell is appended to the path.
C30_NoConversionStop ==
    /\ [][(flowPc = "for" /\ flowPc' = "done") =>
             /\ currentGridPos' = currentGridPos
             /\ flowResult' = pathPoints
             /\ \/ step >= MAX_PATH_STEPS
                \/ LowerNeighbours(demEntry.demData, LastCell) = {}
         ]_vars
    /\ [](flowPc \in {"for", "done"} /\ ArrLen(pathCells) > 0 =>
             /\ ArrLen(pathPoints) = ArrLen(pathCells)
             /\ currentGridPos = LastCell)

\* a path has ended at a cell of elevation 0 after two moves
C30_Witness ==
    /\ FlowDone
    /\ ArrLen(flowResult) >= 3
    /\ currentElevation = 0
    /\ currentGridPos = LastCell

----------------------------------------------------------------------------
(* Further properties of parseASCIIGrid *)

\* the data lines of the file that are lines of numbers
NumericDataLines ==
    {d \in 1..Len(fileShape.dataLines) : NumericLine(fileShape.dataLines[d])}

\* the first of them
FirstNumericDataLine == CHOOSE d \in NumericDataLines : \A e \in NumericDataLines : d <= e

\* the i-th line of the file counted from its first line of numbers
LineFromFirstNumeric(i) ==
    IF FirstNumericDataLine + i <= Len(fileShape.dataLines)
    THEN fileShape.dataLines[FirstNumericDataLine + i]
    ELSE <<>>

\* C25: the header scan stops at the first non-blank line that is not a
\* header line and whose tokens are all numbers, and the rows are read from
\* that line on, however many of the six header keys came before it: with a
\* usable header the parse succeeds and row i holds the i-th line from there.
C25_HeaderScanStop ==
    (/\ ParseDone
     /\ GridFamily
     /\ RequiredUsable(fileShape.req)
     /\ NumericDataLines # {})
        => /\ parseResult # null
           /\ \A i \in DOMAIN parseResult.data :
                \A k \in DOMAIN parseResult.data[i] :
                   parseResult.data[i][k]
                       = ExpectedCell(LineFromFirstNumeric(i), k,
                                      parseResult.header["nodata_value"])

----------------------------------------------------------------------------
(* Further properties of the session *)

\* the origin an entry of loadedDEMs was placed against
OriginUsedBy(entry) ==
    [x |-> entry.header.xllcorner - entry.position.x,
     y |-> entry.header.yllcorner - entry.position.y]

\* C27: with handleFileLoad calls overlapping at their awaits, the origin is
\* neither reset nor set again while loadedDEMs holds a tile; when
\* loadedDEMs holds a tile the origin is not null and every tile was placed
\* against one and the same origin.
C27_OverlappingLoadsOneOrigin ==
    /\ [][(ArrLen(loadedDEMs) > 0 /\ ArrLen(loadedDEMs') > 0)
             => firstDemAbsoluteOrigin' = firstDemAbsoluteOrigin]_vars
    /\ [](ArrLen(loadedDEMs) > 0 =>
             /\ firstDemAbsoluteOrigin.x # nullNum
             /\ firstDemAbsoluteOrigin.y # nullNum
             /\ \A k, m \in DOMAIN loadedDEMs :
                   OriginUsedBy(loadedDEMs[k]) = OriginUsedBy(loadedDEMs[m]))

\* two calls wait at their awaits, each has built a tile that loadedDEMs
\* holds, and the two tiles have different corners
C27_Witness ==
    /\ \E load, other \in pendingLoads :
          load # other /\ load.built /\ other.built
    /\ ArrLen(loadedDEMs) = 2
    /\ loadedDEMs[0].header # loadedDEMs[1].header

----------------------------------------------------------------------------
(* Convergence of the partition loop *)

\* the tile has a row and a column, in its header and in its data
TileNotEmpty(tile) ==
    /\ tile.parsedData.header.ncols >= 1
    /\ tile.parsedData.header.nrows >= 1
    /\ ArrLen(tile.parsedData.data) = tile.parsedData.header.nrows
    /\ \A r \in DOMAIN tile.parsedData.data :
          ArrLen(tile.parsedData.data[r]) = tile.parsedData.header.ncols

\* C28: for a grid over a budget of 1 or more, the partition loop is left
\* for the chunk loops with numChunksX <= ncols and numChunksY <= nrows; the
\* fallback is not taken, no chunk is skipped as empty, and numChunksX *
\* numChunksY tiles are returned, each with a row and a column at least.
C28_SplitConverges ==
    /\ (pc = "while" /\ MAX_POINTS_PER_CHUNK >= 1) ~> (pc = "for")
    /\ []((pc \in {"while", "for"} /\ MAX_POINTS_PER_CHUNK >= 1) =>
            /\ numChunksX <= fullParsedData.header.ncols
            /\ numChunksY <= fullParsedData.header.nrows
            /\ skippedChunks = 0)
    /\ []((SplitBranchDone /\ MAX_POINTS_PER_CHUNK >= 1) =>
            /\ ~FallbackTaken
            /\ returned = resultsArray
            /\ numChunksX <= fullParsedData.header.ncols
            /\ numChunksY <= fullParsedData.header.nrows
            /\ skippedChunks = 0
            /\ ArrLen(returned) = numChunksX * numChunksY
            /\ \A i \in DOMAIN returned : TileNotEmpty(returned[i]))

\* a split into two or more chunks each way, the columns not dividing evenly
C28_Witness ==
    /\ SplitBranchDone
    /\ MAX_POINTS_PER_CHUNK >= 1
    /\ numChunksX >= 2
    /\ numChunksY >= 2
    /\ fullParsedData.header.ncols % numChunksX # 0
    /\ ArrLen(returned) = numChunksX * numChunksY

----------------------------------------------------------------------------
(* The footprint of a tile's mesh *)

\* main.js lines 170-178 and 203: the plane of the mesh is (ncols - 1) *
\* cellsize wide and (nrows - 1) * cellsize high and its centre is placed at
\* (xllcorner - origin.x, yllcorner - origin.y)
InFootprint(point, header, origin) ==
    LET planeWidthForGeom == (header.ncols - 1) * header.cellsize
        planeHeightForGeom == (header.nrows - 1) * header.cellsize
        relativeX == header.xllcorner - origin.x
        relativeY == header.yllcorner - origin.y
    IN  /\ relativeX - Half(planeWidthForGeom) <= point.x
        /\ point.x <= relativeX + Half(planeWidthForGeom)
        /\ relativeY - Half(planeHeightForGeom) <= point.y
        /\ point.y <= relativeY + Half(planeHeightForGeom)

\* C29: for every in-bounds cell of a tile whose elevation is neither
\* nodata_value nor NaN, the last column and the last row included, the XY
\* of gridToWorld(col, row) lies inside the plane of the tile's mesh; every
\* point of a returned path lies inside it.
C29_PathOnFootprint ==
    (HasTile /\ OriginSet) =>
        /\ \A cell \in ValidCellsOf(demEntry.demData) :
              InFootprint(gridToWorld(cell.col, cell.row, demEntry.demData,
                                      firstDemAbsoluteOrigin),
                          demEntry.demData.header, firstDemAbsoluteOrigin)
        /\ FlowDone =>
              \A k \in DOMAIN flowResult :
                 InFootprint(flowResult[k], demEntry.demData.header,
                             firstDemAbsoluteOrigin)

====
